---------------------------- MODULE Spec2Model ----------------------------
(***************************************************************************)
(* Launch planner of the mondaySeasons scripts: launch-date parsing,       *)
(* due-date arithmetic, and the loops that submit items and subitems to    *)
(* the board service.                                                      *)
(*                                                                         *)
(* Text is modelled as a sequence of one-character strings, so that        *)
(* strip(), isdigit(), int(), lower(), `in` and strptime() are computed    *)
(* character by character as the code computes them.  A datetime is the    *)
(* record [tag, ord, sec]: ord is the proleptic Gregorian ordinal          *)
(* (0001-01-01 is 1) and sec the seconds since midnight.                   *)
(***************************************************************************)
EXTENDS Integers, Sequences, FiniteSets, TLC

VARIABLES
    prog,        \* which script runs: "date", "gen", "dup", "mgr", "add"
    pc,          \* position of the running script
    raw,         \* date helpers: the raw launch-date text under test
    weeks,       \* date helpers: the lead time under test
    parsed,      \* date helpers: result of each copy of parse_launch_date
    due,         \* date helpers: result of calculate_due_date
    year_padded, \* the platform: whether strftime writes %Y with four digits
    records,     \* the input: master CSV rows, master board items or CSV rows
    sub_items,   \* the task templates of the department (subitems_config)
    env,         \* what the script finds outside: files, boards, columns
    row_i,       \* index of the record the loop is at
    sub_j,       \* index of the template the subitem loop is at
    launch_date, \* the parsed launch date of the record being processed
    csv_data,    \* the rows generate_department_csv has built
    csv_file,    \* the file write_csv has written
    returned,    \* what the earlier calls of generate_department_csv returned
    groups,      \* board service: titles of the destination board's groups
    columns,     \* board service: titles of the board's columns
    dest,        \* board service: the items created, with their subitems
    calls,       \* board service: the mutating calls received, in order
    group_mapping,        \* duplicator: target group name -> group id
    due_date_column_id,   \* submitters: id of the due date column, or None
    items_created,        \* run counter
    subitems_created,     \* run counter
    errors,               \* the per-record errors printed, in order
    failures              \* board-service calls that have failed so far

dateVars == <<raw, weeks, parsed, due, year_padded>>

inputVars == <<records, sub_items, env>>

loopVars == <<row_i, sub_j, launch_date>>

boardVars == <<groups, columns, dest, calls>>

runVars == <<group_mapping, due_date_column_id, items_created, subitems_created, errors>>

genVars == <<csv_data, csv_file, returned>>

vars == <<prog, pc, dateVars, inputVars, loopVars, genVars, boardVars, runVars, failures>>

(***************************************************************************)
(* Python values                                                           *)
(***************************************************************************)
\* The None object where a str is expected.
NoneStr == <<"<None>">>

\* An exception escaping a function that returns a str.
RaisedStr == <<"<OverflowError>">>

\* The None object where a datetime is expected.
None == [tag |-> "None", ord |-> 0, sec |-> 0]

\* An OverflowError escaping a function that returns a datetime.
Overflow == [tag |-> "OverflowError", ord |-> 0, sec |-> 0]

DateTime(o, s) == [tag |-> "datetime", ord |-> o, sec |-> s]

\* No file written.
NoFile == [written |-> FALSE, header |-> <<>>, rows |-> <<>>]

\* Truth value of a str or None: `if x`, `not x`.
Truthy(s) == s # NoneStr /\ s # <<>>

(***************************************************************************)
(* str methods                                                             *)
(***************************************************************************)
DigitChars == <<"0", "1", "2", "3", "4", "5", "6", "7", "8", "9">>

IsDigitChar(c) == \E i \in 1..10 : DigitChars[i] = c

DigitVal(c) == (CHOOSE i \in 1..10 : DigitChars[i] = c) - 1

IsSpace(c) == c = " "

\* str.isdigit(): at least one character and every character a digit.
isdigit(s) == Len(s) > 0 /\ \A i \in 1..Len(s) : IsDigitChar(s[i])

\* int(s) for a digit-only s.
RECURSIVE int(_)
int(s) == IF s = <<>> THEN 0
          ELSE 10 * int(SubSeq(s, 1, Len(s) - 1)) + DigitVal(s[Len(s)])

\* str.strip(): drop the whitespace at both ends.
strip(s) ==
    LET nonsp == {i \in 1..Len(s) : ~IsSpace(s[i])}
        Min(S) == CHOOSE x \in S : \A y \in S : x <= y
        Max(S) == CHOOSE x \in S : \A y \in S : x >= y
    IN IF nonsp = {} THEN <<>> ELSE SubSeq(s, Min(nonsp), Max(nonsp))

UpperChars == <<"A", "B", "C", "D", "E", "F", "G", "H", "I", "J", "K", "L", "M",
                "N", "O", "P", "Q", "R", "S", "T", "U", "V", "W", "X", "Y", "Z">>

LowerChars == <<"a", "b", "c", "d", "e", "f", "g", "h", "i", "j", "k", "l", "m",
                "n", "o", "p", "q", "r", "s", "t", "u", "v", "w", "x", "y", "z">>

\* str.lower()
lower(s) ==
    [i \in 1..Len(s) |->
        IF \E k \in 1..26 : UpperChars[k] = s[i]
        THEN LowerChars[CHOOSE k \in 1..26 : UpperChars[k] = s[i]]
        ELSE s[i]]

\* needle in hay
Contains(needle, hay) ==
    \E i \in 1..(Len(hay) - Len(needle) + 1) :
        SubSeq(hay, i, i + Len(needle) - 1) = needle

\* s.startswith(prefix)
startswith(s, prefix) ==
    Len(s) >= Len(prefix) /\ SubSeq(s, 1, Len(prefix)) = prefix

(***************************************************************************)
(* datetime: ordinals of the proleptic Gregorian calendar                  *)
(***************************************************************************)
IsLeap(y) == y % 4 = 0 /\ (y % 100 # 0 \/ y % 400 = 0)

DaysInMonth(y, m) ==
    IF m = 2 THEN (IF IsLeap(y) THEN 29 ELSE 28)
    ELSE IF m \in {4, 6, 9, 11} THEN 30 ELSE 31

RECURSIVE DaysBeforeMonth(_, _)
DaysBeforeMonth(y, m) ==
    IF m = 1 THEN 0 ELSE DaysBeforeMonth(y, m - 1) + DaysInMonth(y, m - 1)

DaysBeforeYear(y) ==
    (y - 1) * 365 + (y - 1) \div 4 - (y - 1) \div 100 + (y - 1) \div 400

\* datetime(y, m, d).toordinal()
Ymd2Ord(y, m, d) == DaysBeforeYear(y) + DaysBeforeMonth(y, m) + d

\* datetime.min and datetime.max as ordinals: 0001-01-01 and 9999-12-31.
MinOrd == Ymd2Ord(1, 1, 1)

MaxOrd == Ymd2Ord(9999, 12, 31)

\* The calendar date of an ordinal, as [y, m, d].
Ord2Ymd(n) ==
    LET n0   == n - 1
        n400 == n0 \div 146097
        r400 == n0 % 146097
        n100 == r400 \div 36524
        r100 == r400 % 36524
        n4   == r100 \div 1461
        r4   == r100 % 1461
        n1   == r4 \div 365
        r1   == r4 % 365
        year == n400 * 400 + 1 + n100 * 100 + n4 * 4 + n1
    IN IF n1 = 4 \/ n100 = 4
       THEN [y |-> year - 1, m |-> 12, d |-> 31]
       ELSE LET month == CHOOSE m \in 1..12 :
                            /\ DaysBeforeMonth(year, m) <= r1
                            /\ r1 < DaysBeforeMonth(year, m) + DaysInMonth(year, m)
            IN [y |-> year, m |-> month, d |-> r1 - DaysBeforeMonth(year, month) + 1]

\* A number as decimal text, zero-padded to `width` digits.
RECURSIVE Pad(_, _)
Pad(n, width) ==
    IF width = 0 THEN <<>>
    ELSE Append(Pad(n \div 10, width - 1), DigitChars[(n % 10) + 1])

\* The decimal digits of n, as the C library writes a number.
RECURSIVE Digits(_)
Digits(n) == IF n < 10 THEN <<DigitChars[n + 1]>>
             ELSE Append(Digits(n \div 10), DigitChars[(n % 10) + 1])

\* dt.strftime('%Y-%m-%d'): the C library writes the year, with four digits
\* on some platforms and with no padding on others (glibc); the month and
\* the day have two digits everywhere.
strftime(dt) ==
    LET c == Ord2Ymd(dt.ord)
    IN (IF year_padded THEN Pad(c.y, 4) ELSE Digits(c.y))
       \o <<"-">> \o Pad(c.m, 2) \o <<"-">> \o Pad(c.d, 2)

\* dt + timedelta(days=n): OverflowError outside datetime.min..datetime.max.
AddDays(dt, n) ==
    IF dt.ord + n < MinOrd \/ dt.ord + n > MaxOrd THEN Overflow
    ELSE DateTime(dt.ord + n, dt.sec)


(***************************************************************************)
(* datetime.strptime                                                       *)
(***************************************************************************)
\* A format is the sequence of its directives and literal characters.
FmtIso == <<"%Y", "-", "%m", "-", "%d">>

FmtUs == <<"%m", "/", "%d", "/", "%Y">>

FmtEu == <<"%d", "/", "%m", "/", "%Y">>

FmtIsoTime == <<"%Y", "-", "%m", "-", "%d", " ", "%H", ":", "%M", ":", "%S">>

\* How many characters a directive may consume.
TokLens(tok, avail) ==
    CASE tok = "%Y" -> {4}
      [] tok \in {"%m", "%d", "%H", "%M", "%S"} -> {1, 2}
      [] tok = " " -> 1..avail
      [] OTHER -> {1}

\* Whether the text t is accepted by a directive's regular expression.
TokOk(tok, t) ==
    CASE tok = "%Y" -> isdigit(t)
      [] tok = "%m" -> isdigit(t) /\ int(t) \in 1..12
      [] tok = "%d" -> \/ isdigit(t) /\ int(t) \in 1..31
                       \/ Len(t) = 2 /\ t[1] = " " /\ IsDigitChar(t[2]) /\ t[2] # "0"
      [] tok = "%H" -> isdigit(t) /\ int(t) \in 0..23
      [] tok = "%M" -> isdigit(t) /\ int(t) \in 0..59
      [] tok = "%S" -> isdigit(t) /\ int(t) \in 0..61
      [] tok = " " -> \A i \in 1..Len(t) : IsSpace(t[i])
      [] OTHER -> t = <<tok>>

TokVal(tok, t) ==
    IF tok \in {"%Y", "%m", "%d", "%H", "%M", "%S"}
    THEN int(SelectSeq(t, IsDigitChar))
    ELSE 0

\* The ways the format's directives k.. match the whole of s from pos on:
\* a set of value sequences, one value per directive.
RECURSIVE MatchFrom(_, _, _, _)
MatchFrom(s, pos, fmt, k) ==
    IF k > Len(fmt)
    THEN (IF pos = Len(s) + 1 THEN {<<>>} ELSE {})
    ELSE UNION {
            {<<TokVal(fmt[k], SubSeq(s, pos, pos + n - 1))>> \o rest :
                rest \in MatchFrom(s, pos + n, fmt, k + 1)} :
            n \in {n \in TokLens(fmt[k], Len(s) - pos + 1) :
                     /\ pos + n - 1 <= Len(s)
                     /\ TokOk(fmt[k], SubSeq(s, pos, pos + n - 1))}}

ValueError == [tag |-> "ValueError", ord |-> 0, sec |-> 0]

\* datetime.strptime(s, fmt): the datetime, or ValueError when the text does
\* not match the format or names no date of the calendar.
strptime(s, fmt) ==
    LET ms == MatchFrom(s, 1, fmt, 1)
    IN IF ms = {} THEN ValueError
       ELSE LET v == CHOOSE x \in ms : TRUE
                F(tok) == IF \E k \in 1..Len(fmt) : fmt[k] = tok
                          THEN v[CHOOSE k \in 1..Len(fmt) : fmt[k] = tok]
                          ELSE 0
            IN IF \/ F("%Y") < 1
                  \/ F("%d") > DaysInMonth(F("%Y"), F("%m"))
                  \/ F("%S") > 59
               THEN ValueError
               ELSE DateTime(Ymd2Ord(F("%Y"), F("%m"), F("%d")),
                             F("%H") * 3600 + F("%M") * 60 + F("%S"))

(***************************************************************************)
(* parse_launch_date and calculate_due_date                                *)
(***************************************************************************)
\* base_date = datetime(1899, 12, 30)
base_date == DateTime(Ymd2Ord(1899, 12, 30), 0)

\* The `for fmt in date_formats` loop: the first format that parses wins.
RECURSIVE TryFormats(_, _, _)
TryFormats(s, date_formats, k) ==
    IF k > Len(date_formats) THEN None
    ELSE LET r == strptime(strip(s), date_formats[k])
         IN IF r # ValueError THEN r ELSE TryFormats(s, date_formats, k + 1)

\* ParseWith without the `not launch_date_str` test: None.strip() raises.
ParseWith_NoNoneTest(launch_date_str, date_formats) ==
    IF launch_date_str = NoneStr THEN [tag |-> "AttributeError", ord |-> 0, sec |-> 0]
    ELSE IF strip(launch_date_str) = <<>> THEN None
    ELSE IF isdigit(launch_date_str)
         THEN AddDays(base_date, int(launch_date_str))
         ELSE TryFormats(launch_date_str, date_formats, 1)

\* The body shared by every copy of parse_launch_date.
ParseWith(launch_date_str, date_formats) ==
    IF ~Truthy(launch_date_str) \/ strip(launch_date_str) = <<>> THEN None
    ELSE IF isdigit(launch_date_str)
         THEN AddDays(base_date, int(launch_date_str))
         ELSE TryFormats(launch_date_str, date_formats, 1)

\* The date formats with the day-first format tried before the month-first.
Gen_date_formats_DayFirst == <<FmtIso, FmtEu, FmtUs, FmtIsoTime>>

\* generate_monday_boards.parse_launch_date
Gen_date_formats == <<FmtIso, FmtUs, FmtEu, FmtIsoTime>>

parse_launch_date(launch_date_str) == ParseWith(launch_date_str, Gen_date_formats)

\* MondaySubitemManager.parse_launch_date
Mgr_date_formats == <<FmtIso, FmtUs, FmtEu, FmtIsoTime>>

Mgr_parse_launch_date(launch_date_str) == ParseWith(launch_date_str, Mgr_date_formats)

\* MondayBoardDuplicator.parse_launch_date
Dup_date_formats == <<FmtIso, FmtUs, FmtEu>>

Dup_parse_launch_date(launch_date_str) == ParseWith(launch_date_str, Dup_date_formats)

\* add_subitems_to_monday.parse_launch_date
Add_date_formats == <<FmtIso, FmtUs, FmtEu>>

Add_parse_launch_date(launch_date_str) == ParseWith(launch_date_str, Add_date_formats)

\* generate_product_dev.parse_launch_date
Pd_date_formats == <<FmtIso, FmtUs, FmtEu>>

Pd_parse_launch_date(launch_date_str) == ParseWith(launch_date_str, Pd_date_formats)

\* calculate_due_date with timedelta(days=...) written for timedelta(weeks=...).
calculate_due_date_Days(launch_dt, lead_time_weeks) ==
    IF launch_dt = None THEN NoneStr
    ELSE LET due_date == AddDays(launch_dt, 0 - lead_time_weeks)
         IN IF due_date = Overflow THEN RaisedStr ELSE strftime(due_date)

\* calculate_due_date with the lead time added to the launch date.
calculate_due_date_Later(launch_dt, lead_time_weeks) ==
    IF launch_dt = None THEN NoneStr
    ELSE LET due_date == AddDays(launch_dt, 7 * lead_time_weeks)
         IN IF due_date = Overflow THEN RaisedStr ELSE strftime(due_date)

\* calculate_due_date, the same in every copy: None for None, else the
\* text of launch_date - timedelta(weeks=lead_time_weeks).
calculate_due_date(launch_dt, lead_time_weeks) ==
    IF launch_dt = None THEN NoneStr
    ELSE LET due_date == AddDays(launch_dt, 0 - 7 * lead_time_weeks)
         IN IF due_date = Overflow THEN RaisedStr ELSE strftime(due_date)


(***************************************************************************)
(* The date helpers on their own: one raw text, one lead time              *)
(***************************************************************************)
\* Largest lead time tried, in weeks.
MaxWeeks == 52

\* Lead times tried: none, the 12 and 40 weeks of the product-development
\* tasks, and the largest.
LeadTimes == {0, 12, 40, MaxWeeks}

\* str(n)
RECURSIVE Str(_)
Str(n) == IF n < 10 THEN <<DigitChars[n + 1]>>
          ELSE Append(Str(n \div 10), DigitChars[(n % 10) + 1])

\* Day and month numbers tried in slash dates.
SlashNums == {0, 1, 2, 5, 12, 13, 29, 30, 31, 32}

SlashTexts ==
    {Str(a) \o <<"/">> \o Str(b) \o <<"/">> \o Str(y) :
        a \in SlashNums, b \in SlashNums, y \in {2024, 2025}}
    \cup {Pad(a, 2) \o <<"/">> \o Pad(b, 2) \o <<"/">> \o <<"2", "0", "2", "6">> :
        a \in {1, 5, 13}, b \in {1, 5, 13}}

\* Excel serial numbers tried: 2958465 is 9999-12-31, the last datetime.
Serials == {0, 1, 59, 60, 61, 45930, 46062, 2958465, 2958466, 9999999}

IsoTexts ==
    {Pad(y, 4) \o <<"-">> \o Pad(m, 2) \o <<"-">> \o Pad(d, 2) :
        y \in {2024, 2025, 2026}, m \in {1, 2, 6, 12}, d \in {1, 15, 29, 30}}
    \cup {<<"2", "0", "2", "5", "-", "1", "-", "5">>,
          <<"2", "0", "2", "5", "-", "1", "3", "-", "0", "1">>,
          <<"0", "0", "0", "0", "-", "0", "1", "-", "0", "1">>}

TimeTexts ==
    {<<"2", "0", "2", "5", "-", "0", "1", "-", "1", "5", " ", "1", "0", ":", "3", "0", ":", "0", "0">>,
     <<"2", "0", "2", "5", "-", "0", "1", "-", "1", "5", " ", " ", "7", ":", "5", ":", "9">>,
     <<"2", "0", "2", "5", "-", "0", "1", "-", "1", "5", " ", "1", "0", ":", "3", "0", ":", "6", "0">>}

JunkTexts ==
    {<<"n", "o", "t", " ", "a", " ", "d", "a", "t", "e">>,
     <<"T", "B", "D">>,
     <<"4", "6", "0", "6", "2", ".", "0">>}

BlankTexts == {NoneStr, <<>>, <<" ">>, <<" ", " ">>}

\* s with whitespace put around it.
Padded(S) == UNION {{<<" ">> \o s, s \o <<" ">>, <<" ">> \o s \o <<" ", " ">>} : s \in S}

RawInputs ==
    BlankTexts \cup {Str(n) : n \in Serials} \cup IsoTexts \cup SlashTexts
    \cup TimeTexts \cup JunkTexts
    \cup Padded({Str(46062), Str(2958466), Pad(2025, 4) \o <<"-">> \o Pad(12, 2) \o <<"-">> \o Pad(1, 2)})

Copies == {"gen", "mgr", "dup", "add", "pd"}

\* The values of the variables a script does not use.
DateIdle ==
    /\ raw = <<>> /\ weeks = 0 /\ parsed = [c \in Copies |-> None] /\ due = NoneStr

\* The platform of a run whose dates are all of the year 1000 or later,
\* where the platforms write the same text: one of them stands for both.
LateYears == year_padded = FALSE

InputIdle == records = <<>> /\ sub_items = <<>> /\ env = [none |-> TRUE]

LoopIdle == row_i = 1 /\ sub_j = 1 /\ launch_date = None

BoardIdle == groups = <<>> /\ columns = <<>> /\ dest = <<>> /\ calls = <<>>

RunIdle ==
    /\ group_mapping = <<>> /\ due_date_column_id = NoneStr
    /\ items_created = 0 /\ subitems_created = 0 /\ errors = <<>>
    /\ failures = 0

DateInit ==
    /\ prog = "date"
    /\ pc = "start"
    /\ raw \in RawInputs
    /\ weeks \in LeadTimes
    /\ parsed = [c \in Copies |-> None]
    /\ due = NoneStr
    /\ year_padded \in BOOLEAN
    /\ InputIdle /\ LoopIdle /\ BoardIdle /\ RunIdle /\ csv_data = <<>> /\ csv_file = NoFile /\ returned = <<>>

\* Each copy of parse_launch_date applied to the raw text.
Parse ==
    /\ prog = "date" /\ pc = "start"
    /\ parsed' = [c \in Copies |->
                    CASE c = "gen" -> parse_launch_date(raw)
                      [] c = "mgr" -> Mgr_parse_launch_date(raw)
                      [] c = "dup" -> Dup_parse_launch_date(raw)
                      [] c = "add" -> Add_parse_launch_date(raw)
                      [] c = "pd" -> Pd_parse_launch_date(raw)]
    /\ pc' = IF parsed'["gen"] = Overflow THEN "raised" ELSE "parsed"
    /\ UNCHANGED <<prog, raw, weeks, due, year_padded>>
    /\ UNCHANGED <<inputVars, loopVars, genVars, boardVars, runVars, failures>>

\* calculate_due_date applied to the parsed launch date.
CalcDue ==
    /\ prog = "date" /\ pc = "parsed"
    /\ due' = calculate_due_date(parsed["gen"], weeks)
    /\ pc' = "done"
    /\ UNCHANGED <<prog, raw, weeks, parsed, year_padded>>
    /\ UNCHANGED <<inputVars, loopVars, genVars, boardVars, runVars, failures>>

(***************************************************************************)
(* Inputs of the scripts                                                   *)
(***************************************************************************)
\* Most records in an input list.
MaxRecords == 2

\* Most task templates in a department's configuration.
MaxTemplates == 2

\* Most board-service calls that fail in one run.
MaxFailures == 1

\* dict.get(key, ''): the empty text when the key is absent.
GetOrEmpty(v) == IF v = NoneStr THEN <<>> ELSE v

\* The lists of at most n elements of S.
RECURSIVE ListsUpTo(_, _)
ListsUpTo(S, n) ==
    IF n = 0 THEN {<<>>}
    ELSE LET shorter == ListsUpTo(S, n - 1)
         IN shorter \cup {Append(l, x) : l \in {l \in shorter : Len(l) = n - 1}, x \in S}

\* The product-development tasks and their lead times in weeks; a task of
\* the configuration file may carry a description.
Template(name, w, descr) ==
    [task_name |-> name, lead_time_weeks |-> w, description |-> descr]

ProductDevelopment ==
    <<Template(<<"F", "a", "b", "r", "i", "c", " ", "A", "p", "p", "r", "o", "v", "e", "d">>, 40, <<"A", "p", "p", "r", "o", "v", "e", " ", "f", "a", "b", "r", "i", "c">>),
      Template(<<"D", "e", "s", "i", "g", "n", " ", "A", "p", "p", "r", "o", "v", "e", "d">>, 26, NoneStr),
      Template(<<"F", "i", "t", " ", "A", "p", "p", "r", "o", "v", "e", "d">>, 18, NoneStr),
      Template(<<"C", "o", "l", "o", "r", " ", "A", "p", "p", "r", "o", "v", "e", "d">>, 16, NoneStr),
      Template(<<"P", "r", "o", "d", "u", "c", "t", "i", "o", "n", " ", "A", "p", "p", "r", "o", "v", "e", "d">>, 12, NoneStr)>>

\* config['departments'][...]['sub_items'] of monday_config.json
TemplateLists == {SubSeq(ProductDevelopment, 1, n) : n \in 0..MaxTemplates}

(***************************************************************************)
(* generate_monday_boards.generate_department_csv                          *)
(***************************************************************************)
MasterRow(item, launch, style, color, priority, status, platform) ==
    [Item |-> item, Launch_Date |-> launch, Style_Name |-> style,
     Color_Name |-> color, Priority |-> priority, Status |-> status,
     Platform |-> platform]

\* Rows of the master CSV: dated by serial or by text, undated, unparsable,
\* unnamed, and dated past the last datetime.
GenRowShapes ==
    {MasterRow(<<"A">>, <<"4", "6", "0", "6", "2">>, <<"T", "e", "e">>, <<"R", "e", "d">>, <<"H", "i", "g", "h">>, <<"O", "p", "e", "n">>, <<"W", "e", "b">>),
     MasterRow(<<"B">>, <<"2", "0", "2", "5", "-", "1", "2", "-", "0", "1">>, <<>>, <<>>, <<>>, <<>>, <<>>),
     MasterRow(<<"C">>, <<>>, <<"C", "a", "p">>, <<>>, <<>>, <<>>, <<>>),
     MasterRow(<<"D">>, <<"T", "B", "D">>, <<>>, <<>>, <<>>, <<>>, <<>>),
     MasterRow(<<>>, <<"4", "6", "0", "6", "2">>, <<>>, <<>>, <<>>, <<>>, <<>>),
     MasterRow(<<"E">>, <<"2", "9", "5", "8", "4", "6", "6">>, <<>>, <<>>, <<>>, <<>>, <<>>)}

\* The main-item row of a master row.
main_item(row, launch_dt) ==
    [Item |-> row.Item, Style_Name |-> row.Style_Name,
     Color_Name |-> row.Color_Name, Priority |-> row.Priority,
     Status |-> row.Status, Platform |-> row.Platform,
     Launch_Date |-> strftime(launch_dt), Type |-> <<"M", "a", "i", "n", " ", "I", "t", "e", "m">>]

\* The sub-item row of a template.
sub_item_row(sub_item, launch_dt) ==
    LET due_date == calculate_due_date(launch_dt, sub_item.lead_time_weeks)
    IN [Item |-> <<" ", " ">> \o sub_item.task_name, Style_Name |-> <<>>,
        Color_Name |-> <<>>, Priority |-> <<>>, Status |-> <<"N", "o", "t", " ", "S", "t", "a", "r", "t", "e", "d">>,
        Platform |-> <<>>, Launch_Date |-> <<>>,
        Due_Date |-> IF Truthy(due_date) THEN due_date ELSE <<>>,
        Type |-> <<"S", "u", "b", " ", "I", "t", "e", "m">>, Description |-> GetOrEmpty(sub_item.description)]

GenInit ==
    /\ prog = "gen"
    /\ records \in ListsUpTo(GenRowShapes, MaxRecords)
    /\ sub_items \in TemplateLists
    /\ env \in {[department_known |-> b] : b \in BOOLEAN}
    /\ pc = "start"
    /\ csv_data = <<>> /\ csv_file = NoFile /\ returned = <<>>
    /\ DateIdle /\ year_padded \in BOOLEAN /\ LoopIdle /\ BoardIdle /\ RunIdle

\* Most calls of generate_department_csv in a run.
MaxCalls == 2

\* GenStart filling the list of the call before instead of a new one.
GenStart_SameList ==
    /\ prog = "gen" /\ pc = "start"
    /\ pc' = IF env.department_known THEN "loop" ELSE "returned_none"
    /\ UNCHANGED <<prog, dateVars, inputVars, loopVars, genVars, boardVars, runVars, failures>>

\* generate_department_csv up to the loop: an unknown department returns
\* None; otherwise csv_data is a new empty list.
GenStart ==
    /\ prog = "gen" /\ pc = "start"
    /\ pc' = IF env.department_known THEN "loop" ELSE "returned_none"
    /\ csv_data' = <<>>
    /\ UNCHANGED <<prog, dateVars, inputVars, loopVars, csv_file, returned, boardVars, runVars,
                   failures>>

\* GenRow with the sub-item rows of a record put before its main-item row.
GenRow_SubItemsFirst ==
    /\ prog = "gen" /\ pc = "loop" /\ row_i <= Len(records)
    /\ LET row == records[row_i]
           launch_dt == parse_launch_date(row.Launch_Date)
       IN IF ~Truthy(row.Item)
          THEN /\ UNCHANGED <<csv_data, pc>>
               /\ row_i' = row_i + 1
          ELSE IF launch_dt = Overflow
          THEN /\ pc' = "raised"
               /\ UNCHANGED <<csv_data, row_i>>
          ELSE IF launch_dt = None
          THEN /\ UNCHANGED <<csv_data, pc>>
               /\ row_i' = row_i + 1
          ELSE /\ csv_data' = csv_data
                                \o [k \in 1..Len(sub_items) |-> sub_item_row(sub_items[k], launch_dt)]
                                \o <<main_item(row, launch_dt)>>
               /\ row_i' = row_i + 1
               /\ UNCHANGED pc
    /\ UNCHANGED <<prog, dateVars, inputVars, sub_j, launch_date, csv_file, returned, boardVars,
                   runVars, failures>>

\* One turn of `for row in master_data`.
GenRow ==
    /\ prog = "gen" /\ pc = "loop" /\ row_i <= Len(records)
    /\ LET row == records[row_i]
           launch_dt == parse_launch_date(row.Launch_Date)
       IN IF ~Truthy(row.Item)
          THEN /\ UNCHANGED <<csv_data, pc>>
               /\ row_i' = row_i + 1
          ELSE IF launch_dt = Overflow
          THEN /\ pc' = "raised"
               /\ UNCHANGED <<csv_data, row_i>>
          ELSE IF launch_dt = None
          THEN /\ UNCHANGED <<csv_data, pc>>
               /\ row_i' = row_i + 1
          ELSE /\ csv_data' = csv_data \o <<main_item(row, launch_dt)>>
                                \o [k \in 1..Len(sub_items) |-> sub_item_row(sub_items[k], launch_dt)]
               /\ row_i' = row_i + 1
               /\ UNCHANGED pc
    /\ UNCHANGED <<prog, dateVars, inputVars, sub_j, launch_date, csv_file, returned, boardVars,
                   runVars, failures>>

\* return csv_data
GenReturn ==
    /\ prog = "gen" /\ pc = "loop" /\ row_i > Len(records)
    /\ pc' = "done"
    /\ UNCHANGED <<prog, dateVars, inputVars, loopVars, genVars, boardVars, runVars, failures>>

\* generate_department_csv called again with the arguments of the call
\* before: what that call returned is kept, with the arguments as it left
\* them.
GenCallAgain ==
    /\ prog = "gen" /\ pc \in {"done", "returned_none"}
    /\ Len(returned) + 1 < MaxCalls
    /\ returned' = Append(returned, [rows |-> csv_data, none |-> pc = "returned_none"])
    /\ pc' = "start"
    /\ row_i' = 1
    /\ UNCHANGED <<prog, dateVars, inputVars, sub_j, launch_date, csv_data, csv_file, boardVars,
                   runVars, failures>>

\* The keys of main_item and of sub_item_row, in the order of the dict
\* literals.
main_item_keys ==
    <<"Item", "Style_Name", "Color_Name", "Priority", "Status", "Platform",
      "Launch_Date", "Type">>

sub_item_row_keys ==
    <<"Item", "Style_Name", "Color_Name", "Priority", "Status", "Platform",
      "Launch_Date", "Due_Date", "Type", "Description">>

\* row.keys()
keys(row) == IF "Due_Date" \in DOMAIN row THEN sub_item_row_keys ELSE main_item_keys

\* DictWriter._dict_to_list: a row with a key that is no field name raises
\* ValueError; a field the row lacks is written empty.
HasExtraFields(row, fieldnames) ==
    \E k \in DOMAIN row : \A f \in 1..Len(fieldnames) : fieldnames[f] # k

dict_to_list(row, fieldnames) ==
    [f \in 1..Len(fieldnames) |->
        IF fieldnames[f] \in DOMAIN row THEN row[fieldnames[f]] ELSE <<>>]

\* write_csv(data, filename) for a non-empty data: the header is the keys of
\* the first row; the rows are written in order up to the first one that
\* raises.
write_csv(data) ==
    LET fieldnames == keys(data[1])
        bad == {r \in 1..Len(data) : HasExtraFields(data[r], fieldnames)}
        stop == IF bad = {} THEN Len(data) + 1
                ELSE CHOOSE r \in bad : \A x \in bad : r <= x
    IN [written |-> TRUE,
        header |-> fieldnames,
        rows |-> [r \in 1..(stop - 1) |-> dict_to_list(data[r], fieldnames)],
        raised |-> bad # {}]

\* main after generate_department_csv: `if csv_data:` write_csv, else the
\* "No data generated" message.  The ValueError of writerows is not caught.
GenWriteCsv ==
    /\ prog = "gen" /\ pc \in {"done", "returned_none"}
    /\ IF pc = "returned_none" \/ csv_data = <<>>
       THEN pc' = "no_data" /\ UNCHANGED csv_file
       ELSE LET out == write_csv(csv_data)
            IN /\ csv_file' = [written |-> TRUE, header |-> out.header, rows |-> out.rows]
               /\ pc' = IF out.raised THEN "write_raised" ELSE "written"
    /\ UNCHANGED <<prog, dateVars, inputVars, loopVars, csv_data, returned, boardVars, runVars,
                   failures>>

(***************************************************************************)
(* Python dicts and the board service                                      *)
(***************************************************************************)
\* The dict built from a sequence of <<key, value>> pairs; a later pair
\* overrides an earlier one with the same key.
DictFrom(pairs) ==
    [k \in {pairs[n][1] : n \in 1..Len(pairs)} |->
        pairs[CHOOSE n \in 1..Len(pairs) :
                /\ pairs[n][1] = k
                /\ \A m \in (n + 1)..Len(pairs) : pairs[m][1] # k][2]]

\* {k: v for k, v in d.items() if v}
NonEmpty(d) == [k \in {k \in DOMAIN d : Truthy(d[k])} |-> d[k]]

\* d[k] = v
Put(d, k, v) == [x \in DOMAIN d \cup {k} |-> IF x = k THEN v ELSE d[x]]

\* A mutating call as the board service receives it.
Call(op, rec, tmpl, ok) == [op |-> op, rec |-> rec, tmpl |-> tmpl, ok |-> ok]

\* An item as the board service holds it after create_item.
Item(rec, name, group, column_values) ==
    [rec |-> rec, name |-> name, group |-> group,
     column_values |-> column_values, subitems |-> <<>>]

Subitem(name, column_values) == [name |-> name, column_values |-> column_values]

\* The items with a subitem appended to the last one (the item just created).
WithSubitem(items, sub) ==
    [items EXCEPT ![Len(items)].subitems = Append(@, sub)]

Column(id, title) == [id |-> id, title |-> title]

\* column ids and texts of the code
K_status == <<"s", "t", "a", "t", "u", "s">>

K_date == <<"d", "a", "t", "e">>

K_text == <<"t", "e", "x", "t">>

K_text1 == <<"t", "e", "x", "t", "1">>

K_text2 == <<"t", "e", "x", "t", "2">>

K_text3 == <<"t", "e", "x", "t", "3">>

K_text4 == <<"t", "e", "x", "t", "4">>

DueDateTitle == <<"D", "u", "e", " ", "D", "a", "t", "e">>

\* The id the board service gives a column it creates.
NewColumnId == <<"d", "a", "t", "e", "_", "m", "k", "1">>

\* An error printed for a record by the except of the record loop.
Error(rec, what) == [rec |-> rec, what |-> what]

\* Whether one more board-service call may fail.
MayFail == failures < MaxFailures

(***************************************************************************)
(* add_subitems_to_monday.main                                             *)
(***************************************************************************)
\* subitems_config of add_subitems_to_monday.main
Add_subitems_config ==
    [k \in 1..5 |-> [name |-> ProductDevelopment[k].task_name,
                     lead_time_weeks |-> ProductDevelopment[k].lead_time_weeks]]

AddCsvRow(name, launch, style, status) ==
    [Name |-> name, Launch_Date |-> launch, Style_Color |-> style,
     Color_Name |-> <<>>, Person |-> <<>>, Status |-> status]

\* Rows of SS26_ProdDev.csv: dated, undated, the export's "Subitems" header
\* row, a name with whitespace around it, a date past the last datetime.
AddRowShapes ==
    {AddCsvRow(<<"A">>, <<"4", "5", "9", "3", "0">>, <<"T", "e", "e">>, <<"O", "p", "e", "n">>),
     AddCsvRow(<<"B">>, <<>>, <<"C", "a", "p">>, <<>>),
     AddCsvRow(<<"S", "u", "b", "i", "t", "e", "m", "s">>, <<>>, <<>>, <<>>),
     AddCsvRow(<<" ", "C", " ">>, <<"0", "1", "/", "0", "2", "/", "2", "0", "2", "6">>, <<>>, <<>>),
     AddCsvRow(<<"D">>, <<"2", "9", "5", "8", "4", "6", "6">>, <<>>, <<>>)}

AddInit ==
    /\ prog = "add"
    /\ pc = "start"
    /\ records \in ListsUpTo(AddRowShapes, MaxRecords)
    /\ sub_items = <<>>
    /\ env \in {[board_selected |-> b, csv_found |-> c] : b, c \in BOOLEAN}
    /\ columns \in {<<>>, <<Column(<<"d", "a", "t", "e", "4">>, DueDateTitle)>>}
    /\ groups = <<>> /\ dest = <<>> /\ calls = <<>>
    /\ DateIdle /\ LateYears /\ LoopIdle /\ RunIdle /\ csv_data = <<>> /\ csv_file = NoFile /\ returned = <<>>

\* main up to the due date column: the board is selected and the CSV read.
AddStart ==
    /\ prog = "add" /\ pc = "start"
    /\ pc' = IF env.board_selected /\ env.csv_found THEN "setup" ELSE "returned"
    /\ UNCHANGED <<prog, dateVars, inputVars, loopVars, genVars, boardVars, runVars, failures>>

\* client.get_or_create_due_date_column(board_id, "Due Date") inside try:
\* a failure only leaves due_date_column_id None.
AddSetupColumn ==
    /\ prog = "add" /\ pc = "setup"
    /\ pc' = "loop"
    /\ \/ /\ \E n \in 1..Len(columns) : columns[n].title = DueDateTitle
          /\ due_date_column_id' =
                columns[CHOOSE n \in 1..Len(columns) :
                          /\ columns[n].title = DueDateTitle
                          /\ \A m \in 1..(n - 1) : columns[m].title # DueDateTitle].id
          /\ UNCHANGED <<columns, calls, failures>>
       \/ /\ \A n \in 1..Len(columns) : columns[n].title # DueDateTitle
          /\ columns' = Append(columns, Column(NewColumnId, DueDateTitle))
          /\ calls' = Append(calls, Call("create_column", 0, 0, TRUE))
          /\ due_date_column_id' = NewColumnId
          /\ UNCHANGED failures
       \/ /\ MayFail
          /\ failures' = failures + 1
          /\ due_date_column_id' = NoneStr
          /\ UNCHANGED <<columns, calls>>
    /\ UNCHANGED <<prog, dateVars, inputVars, loopVars, genVars, groups, dest,
                   group_mapping, items_created, subitems_created, errors>>

\* One turn of `for row in csv_data` up to the try: the row is skipped, or
\* its launch date is parsed and it is skipped without a date.
AddRow ==
    /\ prog = "add" /\ pc = "loop" /\ row_i <= Len(records)
    /\ LET row == records[row_i]
           launch_dt == Add_parse_launch_date(row.Launch_Date)
       IN IF \/ ~Truthy(row.Name)
             \/ startswith(row.Name, <<"S", "u", "b", "i", "t", "e", "m", "s">>)
             \/ ~Truthy(strip(row.Name))
          THEN row_i' = row_i + 1 /\ UNCHANGED <<pc, launch_date>>
          ELSE IF launch_dt = Overflow
          THEN pc' = "raised" /\ UNCHANGED <<row_i, launch_date>>
          ELSE IF launch_dt = None
          THEN row_i' = row_i + 1 /\ UNCHANGED <<pc, launch_date>>
          ELSE pc' = "create_item" /\ launch_date' = launch_dt /\ UNCHANGED row_i
    /\ UNCHANGED <<prog, dateVars, inputVars, sub_j, genVars, boardVars, runVars, failures>>

\* The column values of the main item of a row.
Add_column_values(row, launch_dt) ==
    NonEmpty(DictFrom(<<<<K_text, row.Style_Color>>, <<K_text1, row.Color_Name>>,
                        <<K_text2, row.Person>>, <<K_text3, row.Status>>,
                        <<K_date, strftime(launch_dt)>>>>))

\* client.create_item(board_id, item_name, column_values)
AddCreateItem ==
    /\ prog = "add" /\ pc = "create_item"
    /\ LET row == records[row_i]
       IN \/ /\ dest' = Append(dest, Item(row_i, strip(row.Name), 0,
                                          Add_column_values(row, launch_date)))
             /\ calls' = Append(calls, Call("create_item", row_i, 0, TRUE))
             /\ items_created' = items_created + 1
             /\ sub_j' = 1
             /\ pc' = "subitems"
             /\ UNCHANGED <<row_i, errors, failures>>
          \/ /\ MayFail
             /\ failures' = failures + 1
             /\ calls' = Append(calls, Call("create_item", row_i, 0, FALSE))
             /\ errors' = Append(errors, Error(row_i, "create_item"))
             /\ row_i' = row_i + 1
             /\ pc' = "loop"
             /\ UNCHANGED <<dest, items_created, sub_j>>
    /\ UNCHANGED <<prog, dateVars, inputVars, launch_date, genVars, groups, columns,
                   group_mapping, due_date_column_id, subitems_created>>

\* The column values of a subitem of add_subitems_to_monday.main.
Add_subitem_column_values(due_date, column_id) ==
    NonEmpty(IF Truthy(column_id) /\ Truthy(due_date)
             THEN Put(DictFrom(<<<<K_status, <<"N", "o", "t", " ", "S", "t", "a", "r", "t", "e", "d">>>>>>), column_id, due_date)
             ELSE DictFrom(<<<<K_status, <<"N", "o", "t", " ", "S", "t", "a", "r", "t", "e", "d">>>>>>))

\* One turn of `for subitem_config in subitems_config`, or its end.
AddCreateSubitem ==
    /\ prog = "add" /\ pc = "subitems"
    /\ \/ /\ sub_j > Len(Add_subitems_config)
          /\ row_i' = row_i + 1
          /\ pc' = "loop"
          /\ UNCHANGED <<sub_j, dest, calls, subitems_created, errors, failures>>
       \/ /\ sub_j <= Len(Add_subitems_config)
          /\ LET cfg == Add_subitems_config[sub_j]
                 due_date == calculate_due_date(launch_date, cfg.lead_time_weeks)
             IN IF due_date = RaisedStr
                THEN /\ errors' = Append(errors, Error(row_i, "OverflowError"))
                     /\ row_i' = row_i + 1
                     /\ pc' = "loop"
                     /\ UNCHANGED <<sub_j, dest, calls, subitems_created, failures>>
                ELSE \/ /\ dest' = WithSubitem(dest,
                                      Subitem(cfg.name,
                                              Add_subitem_column_values(due_date, due_date_column_id)))
                        /\ calls' = Append(calls, Call("create_subitem", row_i, sub_j, TRUE))
                        /\ subitems_created' = subitems_created + 1
                        /\ sub_j' = sub_j + 1
                        /\ UNCHANGED <<row_i, pc, errors, failures>>
                     \/ /\ MayFail
                        /\ failures' = failures + 1
                        /\ calls' = Append(calls, Call("create_subitem", row_i, sub_j, FALSE))
                        /\ errors' = Append(errors, Error(row_i, "create_subitem"))
                        /\ row_i' = row_i + 1
                        /\ pc' = "loop"
                        /\ UNCHANGED <<sub_j, dest, subitems_created>>
    /\ UNCHANGED <<prog, dateVars, inputVars, launch_date, genVars, groups, columns,
                   group_mapping, due_date_column_id, items_created>>

\* The summary after the loop.
AddSummary ==
    /\ prog = "add" /\ pc = "loop" /\ row_i > Len(records)
    /\ pc' = "done"
    /\ UNCHANGED <<prog, dateVars, inputVars, loopVars, genVars, boardVars, runVars, failures>>

(***************************************************************************)
(* duplicate_master_to_proddev.MondayBoardDuplicator                       *)
(***************************************************************************)
\* target_groups
target_groups == <<"SS26 New Colors", "SS26 New Styles", "End of Life Products">>

\* target_group_name with the rule for "new styles" tried first.
target_group_name_StylesFirst(current_group) ==
    IF Contains(<<"n", "e", "w", " ", "s", "t", "y", "l", "e", "s">>, lower(current_group)) THEN "SS26 New Styles"
    ELSE IF Contains(<<"n", "e", "w", " ", "c", "o", "l", "o", "r", "s">>, lower(current_group)) THEN "SS26 New Colors"
    ELSE IF Contains(<<"e", "n", "d", " ", "o", "f", " ", "l", "i", "f", "e">>, lower(current_group)) THEN "End of Life Products"
    ELSE "SS26 New Colors"

\* The target group of an item, from the title of its group on the master
\* board: the if/elif chain on current_group.lower().
target_group_name(current_group) ==
    IF Contains(<<"n", "e", "w", " ", "c", "o", "l", "o", "r", "s">>, lower(current_group)) THEN "SS26 New Colors"
    ELSE IF Contains(<<"n", "e", "w", " ", "s", "t", "y", "l", "e", "s">>, lower(current_group)) THEN "SS26 New Styles"
    ELSE IF Contains(<<"e", "n", "d", " ", "o", "f", " ", "l", "i", "f", "e">>, lower(current_group)) THEN "End of Life Products"
    ELSE "SS26 New Colors"

\* No column: master_platform_col = None.
NoColumn == Column(NoneStr, NoneStr)

\* The first column whose title contains "platform", whatever the case.
platform_col(board_columns) ==
    IF \A n \in 1..Len(board_columns) :
          ~Contains(<<"p", "l", "a", "t", "f", "o", "r", "m">>, lower(board_columns[n].title))
    THEN NoColumn
    ELSE board_columns[CHOOSE n \in 1..Len(board_columns) :
            /\ Contains(<<"p", "l", "a", "t", "f", "o", "r", "m">>, lower(board_columns[n].title))
            /\ \A m \in 1..(n - 1) :
                  ~Contains(<<"p", "l", "a", "t", "f", "o", "r", "m">>, lower(board_columns[m].title))]

\* The loop over item['column_values'] that builds column_values and finds
\* platform_value.  With master_platform_col None, the test
\* col_id != master_platform_col['id'] raises TypeError at the first column
\* that has a text and an id.
RECURSIVE ExtractColumns(_, _, _, _)
ExtractColumns(cols, n, master_platform_col, acc) ==
    IF n > Len(cols) \/ acc.raised THEN acc
    ELSE LET col_text == cols[n].text
             col_id == cols[n].id
             is_platform == master_platform_col # NoColumn /\ col_id = master_platform_col.id
             platform_value == IF is_platform THEN col_text ELSE acc.platform_value
         IN IF Truthy(col_text) /\ Truthy(col_id)
            THEN IF master_platform_col = NoColumn
                 THEN [acc EXCEPT !.raised = TRUE]
                 ELSE ExtractColumns(cols, n + 1, master_platform_col,
                        [column_values |-> IF col_id # master_platform_col.id
                                           THEN Put(acc.column_values, col_id, col_text)
                                           ELSE acc.column_values,
                         platform_value |-> platform_value,
                         raised |-> FALSE])
            ELSE ExtractColumns(cols, n + 1, master_platform_col,
                        [acc EXCEPT !.platform_value = platform_value])

\* Dup_column_values with the platform text left under the master board's id.
Dup_column_values_SourceId(item, master_platform_col, proddev_platform_col) ==
    LET got == ExtractColumns(item.column_values, 1, master_platform_col,
                  [column_values |-> <<>>, platform_value |-> NoneStr, raised |-> FALSE])
    IN IF got.raised THEN got
       ELSE IF Truthy(got.platform_value) /\ proddev_platform_col # NoColumn
            THEN [got EXCEPT !.column_values = Put(@, master_platform_col.id, got.platform_value)]
            ELSE got

\* The column values submitted for an item, or the TypeError.
Dup_column_values(item, master_platform_col, proddev_platform_col) ==
    LET got == ExtractColumns(item.column_values, 1, master_platform_col,
                  [column_values |-> <<>>, platform_value |-> NoneStr, raised |-> FALSE])
    IN IF got.raised THEN got
       ELSE IF Truthy(got.platform_value) /\ proddev_platform_col # NoColumn
            THEN [got EXCEPT !.column_values = Put(@, proddev_platform_col.id, got.platform_value)]
            ELSE got

\* The loop that looks for the launch date in the columns whose id contains
\* "launch" or "date": the first text that parses ends it.
RECURSIVE FindLaunchDate(_, _, _)
FindLaunchDate(cols, n, found) ==
    IF n > Len(cols) THEN found
    ELSE IF \/ Contains(<<"l", "a", "u", "n", "c", "h">>, lower(GetOrEmpty(cols[n].id)))
            \/ Contains(<<"d", "a", "t", "e">>, lower(GetOrEmpty(cols[n].id)))
         THEN LET launch_dt == Dup_parse_launch_date(cols[n].text)
              IN IF launch_dt = Overflow \/ launch_dt.tag = "datetime" THEN launch_dt
                 ELSE FindLaunchDate(cols, n + 1, launch_dt)
         ELSE FindLaunchDate(cols, n + 1, found)

ColumnValue(id, text) == [id |-> id, text |-> text]

MasterItem(name, group_title, column_values) ==
    [name |-> name, group |-> group_title, column_values |-> column_values]

\* Items of the master board.
DupItemShapes ==
    {MasterItem(<<"A">>, <<"S", "S", "2", "6", " ", "N", "E", "W", " ", "C", "O", "L", "O", "R", "S", " ", "-", " ", "W", "a", "v", "e", " ", "2">>,
        <<ColumnValue(<<"t", "e", "x", "t">>, <<"T", "e", "e">>), ColumnValue(<<"p", "l", "a", "t", "f", "o", "r", "m", "_", "1">>, <<"W", "e", "b">>),
          ColumnValue(<<"d", "a", "t", "e", "4">>, <<"2", "0", "2", "5", "-", "1", "2", "-", "0", "1">>)>>),
     MasterItem(<<"B">>, <<"N", "e", "w", " ", "S", "t", "y", "l", "e", "s", " ", "a", "n", "d", " ", "n", "e", "w", " ", "c", "o", "l", "o", "r", "s">>,
        <<ColumnValue(<<"t", "e", "x", "t">>, <<>>), ColumnValue(<<"p", "l", "a", "t", "f", "o", "r", "m", "_", "1">>, <<>>),
          ColumnValue(<<"d", "a", "t", "e", "4">>, <<"4", "6", "0", "6", "2">>)>>),
     MasterItem(<<"C">>, <<"E", "n", "d", " ", "o", "f", " ", "L", "i", "f", "e", " ", "b", "a", "t", "c", "h">>,
        <<ColumnValue(<<"t", "e", "x", "t">>, <<>>), ColumnValue(<<"p", "l", "a", "t", "f", "o", "r", "m", "_", "1">>, NoneStr),
          ColumnValue(<<"d", "a", "t", "e", "4">>, <<>>)>>),
     MasterItem(<<"D">>, <<"M", "i", "s", "c">>,
        <<ColumnValue(<<"t", "e", "x", "t">>, <<>>), ColumnValue(<<"p", "l", "a", "t", "f", "o", "r", "m", "_", "1">>, <<"A", "p", "p">>),
          ColumnValue(<<"d", "a", "t", "e", "4">>, <<"2", "9", "5", "8", "4", "6", "6">>)>>),
     MasterItem(<<"E">>, <<"n", "e", "w", " ", "s", "t", "y", "l", "e", "s">>,
        <<ColumnValue(<<"t", "e", "x", "t">>, <<"2", "0", "2", "4", "-", "0", "1", "-", "0", "1">>), ColumnValue(<<"d", "a", "t", "e", "4">>, <<"T", "B", "D">>),
          ColumnValue(<<"L", "a", "u", "n", "c", "h", "_", "E", "T", "A">>, <<"0", "1", "/", "0", "2", "/", "2", "0", "2", "6">>)>>)}

MasterColumns ==
    <<Column(<<"t", "e", "x", "t">>, <<"S", "t", "y", "l", "e">>), Column(<<"p", "l", "a", "t", "f", "o", "r", "m", "_", "1">>, <<"P", "l", "a", "t", "f", "o", "r", "m">>),
      Column(<<"d", "a", "t", "e", "4">>, <<"L", "a", "u", "n", "c", "h", " ", "D", "a", "t", "e">>)>>

MasterColumnsNoPlatform ==
    <<Column(<<"t", "e", "x", "t">>, <<"S", "t", "y", "l", "e">>), Column(<<"p", "l", "a", "t", "f", "o", "r", "m", "_", "1">>, <<"C", "h", "a", "n", "n", "e", "l">>),
      Column(<<"d", "a", "t", "e", "4">>, <<"L", "a", "u", "n", "c", "h", " ", "D", "a", "t", "e">>)>>

ProdDevColumns ==
    <<Column(<<"t", "e", "x", "t">>, <<"S", "t", "y", "l", "e">>), Column(<<"t", "e", "x", "t", "9">>, <<"T", "a", "r", "g", "e", "t", " ", "P", "L", "A", "T", "F", "O", "R", "M">>),
      Column(<<"d", "a", "t", "e", "7">>, <<"L", "a", "u", "n", "c", "h", " ", "D", "a", "t", "e">>)>>

ProdDevColumnsNoPlatform ==
    <<Column(<<"t", "e", "x", "t">>, <<"S", "t", "y", "l", "e">>), Column(<<"d", "a", "t", "e", "7">>, <<"L", "a", "u", "n", "c", "h", " ", "D", "a", "t", "e">>)>>

\* get_board_by_name: the place of the first board of that very name among
\* the boards of the account, 0 for None.
get_board_by_name(boards, board_name) ==
    IF \E n \in 1..Len(boards) : boards[n] = board_name
    THEN CHOOSE n \in 1..Len(boards) :
             /\ boards[n] = board_name
             /\ \A m \in 1..(n - 1) : boards[m] # board_name
    ELSE 0

\* The limit of items_page in the query of get_board_items.
PageLimit == 500

\* get_board_items: one items_page query, which the board service answers
\* with the first items of the board, up to the limit; no second page is
\* asked for.
get_board_items(board_items) ==
    SubSeq(board_items, 1, IF Len(board_items) < PageLimit THEN Len(board_items) ELSE PageLimit)

DupWorld(config, boards, items, mcols, pcols) ==
    [config_found |-> config, boards |-> boards, items |-> items,
     master_columns |-> mcols, proddev_columns |-> pcols]

\* The names of the boards of the account: the two boards of the season, and
\* accounts where one of them has another name.
BothBoards == <<<<"S", "S", "2", "6", " ", "M", "a", "s", "t", "e", "r">>, <<"S", "S", "2", "6", " ", "P", "r", "o", "d", " ", "D", "e", "v">>>>

OtherMaster == <<<<"s", "s", "2", "6", " ", "m", "a", "s", "t", "e", "r">>, <<"S", "S", "2", "6", " ", "P", "r", "o", "d", " ", "D", "e", "v">>>>

OtherProdDev == <<<<"S", "S", "2", "6", " ", "M", "a", "s", "t", "e", "r">>, <<"S", "S", "2", "6", " ", "P", "r", "o", "d", " ", "D", "e", "v", " ">>, <<"S", "S", "2", "6", " ", "P", "r", "o", "d", "D", "e", "v">>>>

\* What the duplicator finds beside the items: the configuration file, the
\* boards and the columns of the two boards.  A column id belongs to its
\* board: the boards' columns of one title need not have one id.
DupAccounts ==
    {<<FALSE, BothBoards, MasterColumns, ProdDevColumns>>,
     <<TRUE, OtherMaster, MasterColumns, ProdDevColumns>>,
     <<TRUE, OtherProdDev, MasterColumns, ProdDevColumns>>,
     <<TRUE, BothBoards, MasterColumns, ProdDevColumns>>,
     <<TRUE, BothBoards, MasterColumnsNoPlatform, ProdDevColumns>>,
     <<TRUE, BothBoards, MasterColumns, ProdDevColumnsNoPlatform>>}

\* The worlds of the duplicator: an account and the items of the master
\* board.
DupWorlds ==
    {DupWorld(a[1], a[2], items, a[3], a[4]) :
        a \in DupAccounts, items \in ListsUpTo(DupItemShapes, MaxRecords)}

\* duplicate_master_to_proddev up to the groups, with a Prod Dev board that
\* need not be there.
DupStart_NoProdDevTest ==
    /\ prog = "dup" /\ pc = "start"
    /\ pc' = IF /\ env.config_found
                /\ get_board_by_name(env.boards, <<"S", "S", "2", "6", " ", "M", "a", "s", "t", "e", "r">>) # 0
             THEN "groups" ELSE "returned"
    /\ records' = IF pc' = "groups" THEN get_board_items(env.items) ELSE records
    /\ UNCHANGED <<prog, dateVars, sub_items, env, loopVars, genVars, boardVars, runVars,
                   failures>>

DupInit ==
    /\ prog = "dup"
    /\ pc = "start"
    /\ records = <<>>
    /\ sub_items \in TemplateLists
    /\ env \in DupWorlds
    /\ groups \in {<<>>, <<"Group Title", "SS26 New Styles">>}
    /\ (groups # <<>> =>
           <<env.config_found, env.boards, env.master_columns, env.proddev_columns>>
               = <<TRUE, BothBoards, MasterColumns, ProdDevColumns>>)
    /\ columns = <<>> /\ dest = <<>> /\ calls = <<>>
    /\ DateIdle /\ LateYears /\ LoopIdle /\ RunIdle /\ csv_data = <<>> /\ csv_file = NoFile /\ returned = <<>>

\* A master board of n dated items, for boards about as large as the page
\* of get_board_items.
LargeBoard(n) ==
    [i \in 1..n |-> MasterItem(<<"X">>, <<>>, <<ColumnValue(<<"d", "a", "t", "e", "4">>, <<"2", "0", "2", "5", "-", "1", "2", "-", "0", "1">>)>>)]

\* The duplicator before a run on a large master board in which no call of
\* the board service fails: no failure is left to happen.
DupLargeInit ==
    /\ prog = "dup"
    /\ pc = "start"
    /\ records = <<>>
    /\ sub_items = SubSeq(ProductDevelopment, 1, 1)
    /\ env \in {DupWorld(TRUE, BothBoards, LargeBoard(n), MasterColumns, ProdDevColumns) :
                   n \in {PageLimit, PageLimit + 1}}
    /\ groups = <<>> /\ columns = <<>> /\ dest = <<>> /\ calls = <<>>
    /\ DateIdle /\ LateYears /\ LoopIdle /\ csv_data = <<>> /\ csv_file = NoFile /\ returned = <<>>
    /\ group_mapping = <<>> /\ due_date_column_id = NoneStr
    /\ items_created = 0 /\ subitems_created = 0 /\ errors = <<>>
    /\ failures = MaxFailures

\* duplicate_master_to_proddev up to the groups: the configuration is loaded,
\* the boards are found, the items and the columns are read.
DupStart ==
    /\ prog = "dup" /\ pc = "start"
    /\ pc' = IF /\ env.config_found
                /\ get_board_by_name(env.boards, <<"S", "S", "2", "6", " ", "M", "a", "s", "t", "e", "r">>) # 0
                /\ get_board_by_name(env.boards, <<"S", "S", "2", "6", " ", "P", "r", "o", "d", " ", "D", "e", "v">>) # 0
             THEN "groups" ELSE "returned"
    /\ records' = IF pc' = "groups" THEN get_board_items(env.items) ELSE records
    /\ UNCHANGED <<prog, dateVars, sub_items, env, loopVars, genVars, boardVars, runVars,
                   failures>>

\* One turn of `for group_name in target_groups`: get_or_create_group.  The
\* loop is outside every try, so a failing call ends the script.  row_i
\* counts the groups here.
DupGetOrCreateGroup ==
    /\ prog = "dup" /\ pc = "groups"
    /\ LET group_name == target_groups[row_i]
           last == row_i = Len(target_groups)
       IN \/ /\ \E n \in 1..Len(groups) : groups[n] = group_name
             /\ group_mapping' = (group_name :>
                    (CHOOSE n \in 1..Len(groups) :
                        /\ groups[n] = group_name
                        /\ \A m \in 1..(n - 1) : groups[m] # group_name)) @@ group_mapping
             /\ row_i' = IF last THEN 1 ELSE row_i + 1
             /\ pc' = IF last THEN "loop" ELSE "groups"
             /\ UNCHANGED <<groups, calls, failures>>
          \/ /\ \A n \in 1..Len(groups) : groups[n] # group_name
             /\ groups' = Append(groups, group_name)
             /\ calls' = Append(calls, Call("create_group", 0, row_i, TRUE))
             /\ group_mapping' = (group_name :> (Len(groups) + 1)) @@ group_mapping
             /\ row_i' = IF last THEN 1 ELSE row_i + 1
             /\ pc' = IF last THEN "loop" ELSE "groups"
             /\ UNCHANGED failures
          \/ /\ MayFail
             /\ failures' = failures + 1
             /\ pc' = "raised"
             /\ UNCHANGED <<groups, calls, group_mapping, row_i>>
    /\ UNCHANGED <<prog, dateVars, inputVars, sub_j, launch_date, genVars, columns, dest,
                   due_date_column_id, items_created, subitems_created, errors>>

\* DupItem with items_created counted before create_item.
DupItem_CountsFirst ==
    /\ prog = "dup" /\ pc = "loop" /\ row_i <= Len(records)
    /\ LET item == records[row_i]
           target_group_id == group_mapping[target_group_name(GetOrEmpty(item.group))]
           got == Dup_column_values(item, platform_col(env.master_columns),
                                    platform_col(env.proddev_columns))
           launch_dt == FindLaunchDate(item.column_values, 1, None)
       IN IF got.raised
          THEN /\ errors' = Append(errors, Error(row_i, "TypeError"))
               /\ row_i' = row_i + 1
               /\ UNCHANGED <<pc, dest, calls, items_created, sub_j, launch_date, failures>>
          ELSE \/ /\ dest' = Append(dest, Item(row_i, item.name, target_group_id,
                                               got.column_values))
                  /\ calls' = Append(calls, Call("create_item", row_i, 0, TRUE))
                  /\ items_created' = items_created + 1
                  /\ IF launch_dt = Overflow
                     THEN /\ errors' = Append(errors, Error(row_i, "OverflowError"))
                          /\ row_i' = row_i + 1
                          /\ UNCHANGED <<pc, sub_j, launch_date>>
                     ELSE /\ launch_date' = launch_dt
                          /\ sub_j' = 1
                          /\ pc' = "subitems"
                          /\ UNCHANGED <<errors, row_i>>
                  /\ UNCHANGED failures
               \/ /\ MayFail
                  /\ failures' = failures + 1
                  /\ calls' = Append(calls, Call("create_item", row_i, 0, FALSE))
                  /\ errors' = Append(errors, Error(row_i, "create_item"))
                  /\ items_created' = items_created + 1
                  /\ row_i' = row_i + 1
                  /\ UNCHANGED <<pc, dest, sub_j, launch_date>>
    /\ UNCHANGED <<prog, dateVars, inputVars, genVars, groups, columns,
                   group_mapping, due_date_column_id, subitems_created>>

\* One turn of `for i, item in enumerate(master_items, 1)` up to the subitems:
\* the target group, the column values, create_item, the launch date.
DupItem ==
    /\ prog = "dup" /\ pc = "loop" /\ row_i <= Len(records)
    /\ LET item == records[row_i]
           target_group_id == group_mapping[target_group_name(GetOrEmpty(item.group))]
           got == Dup_column_values(item, platform_col(env.master_columns),
                                    platform_col(env.proddev_columns))
           launch_dt == FindLaunchDate(item.column_values, 1, None)
       IN IF got.raised
          THEN /\ errors' = Append(errors, Error(row_i, "TypeError"))
               /\ row_i' = row_i + 1
               /\ UNCHANGED <<pc, dest, calls, items_created, sub_j, launch_date, failures>>
          ELSE \/ /\ dest' = Append(dest, Item(row_i, item.name, target_group_id,
                                               got.column_values))
                  /\ calls' = Append(calls, Call("create_item", row_i, 0, TRUE))
                  /\ items_created' = items_created + 1
                  /\ IF launch_dt = Overflow
                     THEN /\ errors' = Append(errors, Error(row_i, "OverflowError"))
                          /\ row_i' = row_i + 1
                          /\ UNCHANGED <<pc, sub_j, launch_date>>
                     ELSE /\ launch_date' = launch_dt
                          /\ sub_j' = 1
                          /\ pc' = "subitems"
                          /\ UNCHANGED <<errors, row_i>>
                  /\ UNCHANGED failures
               \/ /\ MayFail
                  /\ failures' = failures + 1
                  /\ calls' = Append(calls, Call("create_item", row_i, 0, FALSE))
                  /\ errors' = Append(errors, Error(row_i, "create_item"))
                  /\ row_i' = row_i + 1
                  /\ UNCHANGED <<pc, dest, items_created, sub_j, launch_date>>
    /\ UNCHANGED <<prog, dateVars, inputVars, genVars, groups, columns,
                   group_mapping, due_date_column_id, subitems_created>>

\* Dup_subitem_column_values with a date put in when there is none to send.
Dup_subitem_column_values_Fabricated(launch_dt, due_date) ==
    DictFrom(<<<<K_status, <<"W", "o", "r", "k", "i", "n", "g", " ", "o", "n", " ", "i", "t">>>>,
               <<K_date, IF Truthy(due_date) THEN due_date ELSE <<"2", "0", "2", "5", "-", "0", "1", "-", "0", "1">>>>>>)

\* The column values of a subitem of the duplicator.
Dup_subitem_column_values(launch_dt, due_date) ==
    IF launch_dt # None /\ Truthy(due_date)
    THEN DictFrom(<<<<K_status, <<"W", "o", "r", "k", "i", "n", "g", " ", "o", "n", " ", "i", "t">>>>, <<K_date, due_date>>>>)
    ELSE DictFrom(<<<<K_status, <<"W", "o", "r", "k", "i", "n", "g", " ", "o", "n", " ", "i", "t">>>>>>)

\* DupCreateSubitem going on to the next template after a failed submission.
DupCreateSubitem_SkipsFailed ==
    /\ prog = "dup" /\ pc = "subitems"
    /\ \/ /\ sub_j > Len(sub_items)
          /\ row_i' = row_i + 1
          /\ pc' = "loop"
          /\ UNCHANGED <<sub_j, dest, calls, subitems_created, errors, failures>>
       \/ /\ sub_j <= Len(sub_items)
          /\ LET cfg == sub_items[sub_j]
                 due_date == calculate_due_date(launch_date, cfg.lead_time_weeks)
             IN IF due_date = RaisedStr
                THEN /\ errors' = Append(errors, Error(row_i, "OverflowError"))
                     /\ row_i' = row_i + 1
                     /\ pc' = "loop"
                     /\ UNCHANGED <<sub_j, dest, calls, subitems_created, failures>>
                ELSE \/ /\ dest' = WithSubitem(dest,
                                      Subitem(cfg.task_name,
                                              Dup_subitem_column_values(launch_date, due_date)))
                        /\ calls' = Append(calls, Call("create_subitem", row_i, sub_j, TRUE))
                        /\ subitems_created' = subitems_created + 1
                        /\ sub_j' = sub_j + 1
                        /\ UNCHANGED <<row_i, pc, errors, failures>>
                     \/ /\ MayFail
                        /\ failures' = failures + 1
                        /\ calls' = Append(calls, Call("create_subitem", row_i, sub_j, FALSE))
                        /\ errors' = Append(errors, Error(row_i, "create_subitem"))
                        /\ sub_j' = sub_j + 1
                        /\ UNCHANGED <<row_i, pc, dest, subitems_created>>
    /\ UNCHANGED <<prog, dateVars, inputVars, launch_date, genVars, groups, columns,
                   group_mapping, due_date_column_id, items_created>>

\* One turn of `for subitem_config in subitems_config`, in the branch with a
\* launch date or in the branch without, or the end of the loop.
DupCreateSubitem ==
    /\ prog = "dup" /\ pc = "subitems"
    /\ \/ /\ sub_j > Len(sub_items)
          /\ row_i' = row_i + 1
          /\ pc' = "loop"
          /\ UNCHANGED <<sub_j, dest, calls, subitems_created, errors, failures>>
       \/ /\ sub_j <= Len(sub_items)
          /\ LET cfg == sub_items[sub_j]
                 due_date == calculate_due_date(launch_date, cfg.lead_time_weeks)
             IN IF due_date = RaisedStr
                THEN /\ errors' = Append(errors, Error(row_i, "OverflowError"))
                     /\ row_i' = row_i + 1
                     /\ pc' = "loop"
                     /\ UNCHANGED <<sub_j, dest, calls, subitems_created, failures>>
                ELSE \/ /\ dest' = WithSubitem(dest,
                                      Subitem(cfg.task_name,
                                              Dup_subitem_column_values(launch_date, due_date)))
                        /\ calls' = Append(calls, Call("create_subitem", row_i, sub_j, TRUE))
                        /\ subitems_created' = subitems_created + 1
                        /\ sub_j' = sub_j + 1
                        /\ UNCHANGED <<row_i, pc, errors, failures>>
                     \/ /\ MayFail
                        /\ failures' = failures + 1
                        /\ calls' = Append(calls, Call("create_subitem", row_i, sub_j, FALSE))
                        /\ errors' = Append(errors, Error(row_i, "create_subitem"))
                        /\ row_i' = row_i + 1
                        /\ pc' = "loop"
                        /\ UNCHANGED <<sub_j, dest, subitems_created>>
    /\ UNCHANGED <<prog, dateVars, inputVars, launch_date, genVars, groups, columns,
                   group_mapping, due_date_column_id, items_created>>

\* The report after the loop.
DupSummary ==
    /\ prog = "dup" /\ pc = "loop" /\ row_i > Len(records)
    /\ pc' = "done"
    /\ UNCHANGED <<prog, dateVars, inputVars, loopVars, genVars, boardVars, runVars, failures>>

(***************************************************************************)
(* monday_subitem_manager.MondaySubitemManager, for one department         *)
(***************************************************************************)
BoardCsvRow(item, type, launch, style) ==
    [Item |-> item, Type |-> type, Launch_Date |-> launch, Style_Name |-> style,
     Color_Name |-> <<>>, Priority |-> <<>>, Status |-> <<>>, Platform |-> <<>>]

\* Rows of a department's board CSV: a dated main item, a sub-item row, a
\* main item without a date, one dated past the last datetime, a row of no
\* type.
MgrRowShapes ==
    {BoardCsvRow(<<"A">>, <<"M", "a", "i", "n", " ", "I", "t", "e", "m">>, <<"2", "0", "2", "5", "-", "1", "2", "-", "0", "1">>, <<"T", "e", "e">>),
     BoardCsvRow(<<" ", " ", "F", "a", "b", "r", "i", "c", " ", "A", "p", "p", "r", "o", "v", "e", "d">>, <<"S", "u", "b", " ", "I", "t", "e", "m">>, <<>>, <<>>),
     BoardCsvRow(<<"B">>, <<"M", "a", "i", "n", " ", "I", "t", "e", "m">>, <<>>, <<"C", "a", "p">>),
     BoardCsvRow(<<"C">>, <<"M", "a", "i", "n", " ", "I", "t", "e", "m">>, <<"2", "9", "5", "8", "4", "6", "6">>, <<>>),
     BoardCsvRow(<<"D">>, <<>>, <<"2", "0", "2", "5", "-", "1", "2", "-", "0", "1">>, <<>>)}

MgrInit ==
    /\ prog = "mgr"
    /\ pc = "start"
    /\ records \in ListsUpTo(MgrRowShapes, MaxRecords)
    /\ sub_items \in TemplateLists
    /\ env \in {[board_found |-> b, csv_found |-> c] : b, c \in BOOLEAN}
    /\ columns \in {<<>>, <<Column(<<"d", "a", "t", "e", "4">>, DueDateTitle)>>}
    /\ (~env.board_found => columns = <<>>)
    /\ groups = <<>> /\ dest = <<>> /\ calls = <<>>
    /\ DateIdle /\ LateYears /\ LoopIdle /\ RunIdle /\ csv_data = <<>> /\ csv_file = NoFile /\ returned = <<>>

\* process_csv_data: get_board_by_name, and create_board when there is none.
\* An exception leaves process_csv_data; main reports it for the department.
MgrGetBoard ==
    /\ prog = "mgr" /\ pc = "start"
    /\ \/ /\ env.board_found
          /\ pc' = "setup"
          /\ UNCHANGED <<calls, failures>>
       \/ /\ ~env.board_found
          /\ calls' = Append(calls, Call("create_board", 0, 0, TRUE))
          /\ pc' = "setup"
          /\ UNCHANGED failures
       \/ /\ MayFail
          /\ failures' = failures + 1
          /\ pc' = "failed"
          /\ UNCHANGED calls
    /\ UNCHANGED <<prog, dateVars, inputVars, loopVars, genVars, groups, columns, dest, runVars>>

\* setup_board_for_subitems: get_or_create_due_date_column, re-raising.
MgrSetupColumn ==
    /\ prog = "mgr" /\ pc = "setup"
    /\ \/ /\ \E n \in 1..Len(columns) : columns[n].title = DueDateTitle
          /\ due_date_column_id' =
                columns[CHOOSE n \in 1..Len(columns) :
                          /\ columns[n].title = DueDateTitle
                          /\ \A m \in 1..(n - 1) : columns[m].title # DueDateTitle].id
          /\ pc' = "read_csv"
          /\ UNCHANGED <<columns, calls, failures>>
       \/ /\ \A n \in 1..Len(columns) : columns[n].title # DueDateTitle
          /\ columns' = Append(columns, Column(NewColumnId, DueDateTitle))
          /\ calls' = Append(calls, Call("create_column", 0, 0, TRUE))
          /\ due_date_column_id' = NewColumnId
          /\ pc' = "read_csv"
          /\ UNCHANGED failures
       \/ /\ MayFail
          /\ failures' = failures + 1
          /\ pc' = "failed"
          /\ UNCHANGED <<columns, calls, due_date_column_id>>
    /\ UNCHANGED <<prog, dateVars, inputVars, loopVars, genVars, groups, dest,
                   group_mapping, items_created, subitems_created, errors>>

\* open(csv_file): FileNotFoundError leaves process_csv_data and main skips
\* the department.
MgrReadCsv ==
    /\ prog = "mgr" /\ pc = "read_csv"
    /\ pc' = IF env.csv_found THEN "loop" ELSE "skipped"
    /\ UNCHANGED <<prog, dateVars, inputVars, loopVars, genVars, boardVars, runVars, failures>>

\* One turn of `for row in csv_data` up to the try: sub-item rows, empty
\* rows and rows that are no main item are passed over.
MgrRow ==
    /\ prog = "mgr" /\ pc = "loop" /\ row_i <= Len(records)
    /\ LET row == records[row_i]
       IN IF \/ startswith(GetOrEmpty(row.Item), <<" ", " ">>)
             \/ ~Truthy(row.Item)
             \/ row.Type # <<"M", "a", "i", "n", " ", "I", "t", "e", "m">>
          THEN row_i' = row_i + 1 /\ UNCHANGED pc
          ELSE pc' = "create_item" /\ UNCHANGED row_i
    /\ UNCHANGED <<prog, dateVars, inputVars, sub_j, launch_date, genVars, boardVars, runVars, failures>>

\* main_column_values of create_main_item_with_subitems
Mgr_main_column_values(item_data) ==
    NonEmpty(DictFrom(<<<<K_text, item_data.Style_Name>>, <<K_text1, item_data.Color_Name>>,
                        <<K_text2, item_data.Priority>>, <<K_text3, item_data.Status>>,
                        <<K_text4, item_data.Platform>>, <<K_date, item_data.Launch_Date>>>>))

\* MgrCreateItem going on to the subitems of a record whose create_item
\* failed.
MgrCreateItem_GoesOn ==
    /\ prog = "mgr" /\ pc = "create_item"
    /\ LET item_data == records[row_i]
           launch_dt == Mgr_parse_launch_date(item_data.Launch_Date)
       IN \/ /\ dest' = Append(dest, Item(row_i, item_data.Item, 0,
                                          Mgr_main_column_values(item_data)))
             /\ calls' = Append(calls, Call("create_item", row_i, 0, TRUE))
             /\ IF launch_dt = Overflow
                THEN /\ errors' = Append(errors, Error(row_i, "OverflowError"))
                     /\ row_i' = row_i + 1
                     /\ pc' = "loop"
                     /\ UNCHANGED <<sub_j, launch_date>>
                ELSE /\ launch_date' = launch_dt
                     /\ sub_j' = 1
                     /\ pc' = IF launch_dt # None THEN "subitems" ELSE "created"
                     /\ UNCHANGED <<errors, row_i>>
             /\ UNCHANGED failures
          \/ /\ MayFail /\ launch_dt.tag = "datetime"
             /\ failures' = failures + 1
             /\ calls' = Append(calls, Call("create_item", row_i, 0, FALSE))
             /\ launch_date' = launch_dt
             /\ sub_j' = 1
             /\ pc' = "subitems"
             /\ UNCHANGED <<dest, errors, row_i>>
    /\ UNCHANGED <<prog, dateVars, inputVars, genVars, groups, columns,
                   group_mapping, due_date_column_id, items_created, subitems_created>>

\* create_main_item_with_subitems up to the subitem loop: create_item, then
\* the launch date.  An exception is re-raised to the row loop, which reports
\* it and goes on.
MgrCreateItem ==
    /\ prog = "mgr" /\ pc = "create_item"
    /\ LET item_data == records[row_i]
           launch_dt == Mgr_parse_launch_date(item_data.Launch_Date)
       IN \/ /\ dest' = Append(dest, Item(row_i, item_data.Item, 0,
                                          Mgr_main_column_values(item_data)))
             /\ calls' = Append(calls, Call("create_item", row_i, 0, TRUE))
             /\ IF launch_dt = Overflow
                THEN /\ errors' = Append(errors, Error(row_i, "OverflowError"))
                     /\ row_i' = row_i + 1
                     /\ pc' = "loop"
                     /\ UNCHANGED <<sub_j, launch_date>>
                ELSE /\ launch_date' = launch_dt
                     /\ sub_j' = 1
                     /\ pc' = IF launch_dt # None THEN "subitems" ELSE "created"
                     /\ UNCHANGED <<errors, row_i>>
             /\ UNCHANGED failures
          \/ /\ MayFail
             /\ failures' = failures + 1
             /\ calls' = Append(calls, Call("create_item", row_i, 0, FALSE))
             /\ errors' = Append(errors, Error(row_i, "create_item"))
             /\ row_i' = row_i + 1
             /\ pc' = "loop"
             /\ UNCHANGED <<dest, sub_j, launch_date>>
    /\ UNCHANGED <<prog, dateVars, inputVars, genVars, groups, columns,
                   group_mapping, due_date_column_id, items_created, subitems_created>>

\* subitem_column_values of create_main_item_with_subitems
Mgr_subitem_column_values(subitem_config, due_date, column_id) ==
    LET status == DictFrom(<<<<K_status, <<"N", "o", "t", " ", "S", "t", "a", "r", "t", "e", "d">>>>>>)
        dated == IF Truthy(column_id) /\ Truthy(due_date)
                 THEN Put(status, column_id, due_date) ELSE status
        described == IF subitem_config.description # NoneStr
                     THEN Put(dated, K_text, subitem_config.description) ELSE dated
    IN NonEmpty(described)

\* One turn of `for subitem_config in subitems_config` under `if launch_date`,
\* or the end of the loop.
MgrCreateSubitem ==
    /\ prog = "mgr" /\ pc = "subitems"
    /\ \/ /\ sub_j > Len(sub_items)
          /\ pc' = "created"
          /\ UNCHANGED <<row_i, sub_j, dest, calls, subitems_created, errors, failures>>
       \/ /\ sub_j <= Len(sub_items)
          /\ LET cfg == sub_items[sub_j]
                 due_date == calculate_due_date(launch_date, cfg.lead_time_weeks)
             IN IF due_date = RaisedStr
                THEN /\ errors' = Append(errors, Error(row_i, "OverflowError"))
                     /\ row_i' = row_i + 1
                     /\ pc' = "loop"
                     /\ UNCHANGED <<sub_j, dest, calls, subitems_created, failures>>
                ELSE \/ /\ dest' = WithSubitem(dest,
                                      Subitem(cfg.task_name,
                                              Mgr_subitem_column_values(cfg, due_date, due_date_column_id)))
                        /\ calls' = Append(calls, Call("create_subitem", row_i, sub_j, TRUE))
                        /\ subitems_created' = subitems_created + 1
                        /\ sub_j' = sub_j + 1
                        /\ UNCHANGED <<row_i, pc, errors, failures>>
                     \/ /\ MayFail
                        /\ failures' = failures + 1
                        /\ calls' = Append(calls, Call("create_subitem", row_i, sub_j, FALSE))
                        /\ errors' = Append(errors, Error(row_i, "create_subitem"))
                        /\ row_i' = row_i + 1
                        /\ pc' = "loop"
                        /\ UNCHANGED <<sub_j, dest, subitems_created>>
    /\ UNCHANGED <<prog, dateVars, inputVars, launch_date, genVars, groups, columns,
                   group_mapping, due_date_column_id, items_created>>

\* Back in process_csv_data: main_items_created += 1, then time.sleep(0.5).
\* The module does not import time, so the call raises NameError, which the
\* row's except reports before the loop goes on.
MgrCreated ==
    /\ prog = "mgr" /\ pc = "created"
    /\ items_created' = items_created + 1
    /\ errors' = Append(errors, Error(row_i, "NameError"))
    /\ row_i' = row_i + 1
    /\ pc' = "loop"
    /\ UNCHANGED <<prog, dateVars, inputVars, sub_j, launch_date, genVars, boardVars,
                   group_mapping, due_date_column_id, subitems_created, failures>>

\* The report after the loop.
MgrSummary ==
    /\ prog = "mgr" /\ pc = "loop" /\ row_i > Len(records)
    /\ pc' = "done"
    /\ UNCHANGED <<prog, dateVars, inputVars, loopVars, genVars, boardVars, runVars, failures>>

(***************************************************************************)
(* The board CSV handed from generate_monday_boards to the subitem manager *)
(***************************************************************************)
\* csv.DictReader on the file write_csv has written: each row as a dict from
\* the header's field names to the row's fields.
DictReader(file) ==
    [r \in 1..Len(file.rows) |->
        [k \in {file.header[f] : f \in 1..Len(file.header)} |->
            file.rows[r][CHOOSE f \in 1..Len(file.header) : file.header[f] = k]]]

\* Rows of the master CSV of a run whose board CSV goes to the subitem
\* manager: dated by serial, by text and by text with a time, named with
\* leading spaces, and dated in the year 999.
HandOffRowShapes ==
    {MasterRow(<<"A">>, <<"4", "6", "0", "6", "2">>, <<"T", "e", "e">>, <<"R", "e", "d">>, <<"H", "i", "g", "h">>, <<"O", "p", "e", "n">>, <<"W", "e", "b">>),
     MasterRow(<<"B">>, <<"2", "0", "2", "5", "-", "1", "2", "-", "0", "1">>, <<>>, <<>>, <<>>, <<>>, <<>>),
     MasterRow(<<" ", " ", "F">>, <<"2", "0", "2", "5", "-", "1", "2", "-", "0", "1">>, <<"C", "a", "p">>, <<>>, <<>>, <<>>, <<>>),
     MasterRow(<<"G">>, <<"0", "9", "9", "9", "-", "1", "2", "-", "0", "1">>, <<>>, <<>>, <<>>, <<>>, <<>>),
     MasterRow(<<"H">>, <<"2", "0", "2", "5", "-", "0", "1", "-", "1", "5", " ", "1", "0", ":", "3", "0", ":", "0", "0">>, <<>>, <<>>, <<>>, <<>>, <<>>)}

HandOffInit ==
    /\ prog = "gen"
    /\ records \in ListsUpTo(HandOffRowShapes, MaxRecords)
    /\ sub_items \in TemplateLists
    /\ env = [department_known |-> TRUE]
    /\ pc = "start"
    /\ csv_data = <<>> /\ csv_file = NoFile /\ returned = <<>>
    /\ DateIdle /\ year_padded \in BOOLEAN /\ LoopIdle /\ BoardIdle /\ RunIdle

\* main of monday_subitem_manager run after generate_monday_boards for the
\* same department and directory: csv_file is the name write_csv was given,
\* and process_csv_data reads what the generator left there.
MgrStartOnBoardCsv ==
    /\ prog = "gen" /\ pc \in {"written", "write_raised", "no_data"}
    /\ prog' = "mgr"
    /\ pc' = "start"
    /\ records' = IF csv_file.written THEN DictReader(csv_file) ELSE <<>>
    /\ \E b \in BOOLEAN : env' = [board_found |-> b, csv_found |-> csv_file.written]
    /\ row_i' = 1 /\ sub_j' = 1 /\ launch_date' = None
    /\ UNCHANGED <<dateVars, sub_items, genVars, boardVars, runVars, failures>>

(***************************************************************************)
(* get_or_create_group and get_or_create_due_date_column called in turn    *)
(***************************************************************************)
\* Most calls of the two functions in a run.
MaxLookups == 3

\* get_or_create_group that creates the group without looking for it.
get_or_create_group_NoLookup(board_groups, group_name) ==
    [id |-> Len(board_groups) + 1, groups |-> Append(board_groups, group_name),
     created |-> TRUE]

\* get_or_create_group on a board with these groups: the id of the first
\* group of that title, or of the group create_group adds.  The id of a
\* group is its place on the board.
get_or_create_group(board_groups, group_name) ==
    IF \E n \in 1..Len(board_groups) : board_groups[n] = group_name
    THEN [id |-> CHOOSE n \in 1..Len(board_groups) :
                    /\ board_groups[n] = group_name
                    /\ \A m \in 1..(n - 1) : board_groups[m] # group_name,
          groups |-> board_groups, created |-> FALSE]
    ELSE [id |-> Len(board_groups) + 1, groups |-> Append(board_groups, group_name),
          created |-> TRUE]

\* get_or_create_due_date_column on a board with these columns.
get_or_create_due_date_column(board_columns, column_title) ==
    IF \E n \in 1..Len(board_columns) : board_columns[n].title = column_title
    THEN [id |-> board_columns[CHOOSE n \in 1..Len(board_columns) :
                    /\ board_columns[n].title = column_title
                    /\ \A m \in 1..(n - 1) : board_columns[m].title # column_title].id,
          columns |-> board_columns, created |-> FALSE]
    ELSE [id |-> NewColumnId, columns |-> Append(board_columns, Column(NewColumnId, column_title)),
          created |-> TRUE]

\* A board with some groups and columns, before the first call.
ClientInit ==
    /\ prog = "client"
    /\ pc = "calls"
    /\ groups \in ListsUpTo({"Group Title", "SS26 New Colors", "SS26 New Styles"}, 2)
    /\ columns \in {<<>>, <<Column(<<"d", "a", "t", "e", "4">>, DueDateTitle)>>,
                    <<Column(<<"t", "e", "x", "t">>, <<"S", "t", "y", "l", "e">>), Column(<<"d", "a", "t", "e", "4">>, DueDateTitle),
                      Column(<<"d", "a", "t", "e", "5">>, DueDateTitle)>>}
    /\ dest = <<>> /\ calls = <<>>
    /\ InputIdle /\ DateIdle /\ LateYears /\ LoopIdle /\ RunIdle
    /\ csv_data = <<>> /\ csv_file = NoFile /\ returned = <<>>

\* One call of get_or_create_group; group_mapping keeps the id returned for
\* the title.  A create_group that fails raises and returns nothing.
ClientGetOrCreateGroup ==
    /\ prog = "client" /\ row_i <= MaxLookups
    /\ \E n \in 1..Len(target_groups) :
          LET group_name == target_groups[n]
              got == get_or_create_group(groups, group_name)
          IN \/ /\ groups' = got.groups
                /\ calls' = IF got.created
                            THEN Append(calls, Call("create_group", 0, row_i, TRUE))
                            ELSE calls
                /\ group_mapping' = (group_name :> got.id) @@ group_mapping
                /\ UNCHANGED failures
             \/ /\ got.created /\ MayFail
                /\ failures' = failures + 1
                /\ UNCHANGED <<groups, calls, group_mapping>>
    /\ row_i' = row_i + 1
    /\ UNCHANGED <<prog, pc, dateVars, inputVars, sub_j, launch_date, genVars, columns, dest,
                   due_date_column_id, items_created, subitems_created, errors>>

\* One call of get_or_create_due_date_column with the default title.
ClientGetOrCreateColumn ==
    /\ prog = "client" /\ row_i <= MaxLookups
    /\ LET got == get_or_create_due_date_column(columns, DueDateTitle)
       IN \/ /\ columns' = got.columns
             /\ calls' = IF got.created
                         THEN Append(calls, Call("create_column", 0, row_i, TRUE))
                         ELSE calls
             /\ due_date_column_id' = got.id
             /\ UNCHANGED failures
          \/ /\ got.created /\ MayFail
             /\ failures' = failures + 1
             /\ UNCHANGED <<columns, calls, due_date_column_id>>
    /\ row_i' = row_i + 1
    /\ UNCHANGED <<prog, pc, dateVars, inputVars, sub_j, launch_date, genVars, groups, dest,
                   group_mapping, items_created, subitems_created, errors>>

Init == DateInit \/ GenInit \/ AddInit \/ DupInit \/ MgrInit

Next ==
    \/ Parse \/ CalcDue
    \/ GenStart \/ GenRow \/ GenReturn \/ GenCallAgain \/ GenWriteCsv
    \/ AddStart \/ AddSetupColumn \/ AddRow \/ AddCreateItem \/ AddCreateSubitem \/ AddSummary
    \/ DupStart \/ DupGetOrCreateGroup \/ DupItem \/ DupCreateSubitem \/ DupSummary
    \/ MgrGetBoard \/ MgrSetupColumn \/ MgrReadCsv \/ MgrRow \/ MgrCreateItem
    \/ MgrCreateSubitem \/ MgrCreated \/ MgrSummary

Spec == Init /\ [][Next]_vars

\* Each script run by itself.
DateNext == Parse \/ CalcDue

SpecDate == DateInit /\ [][DateNext]_vars

GenNext == GenStart \/ GenRow \/ GenReturn \/ GenCallAgain \/ GenWriteCsv

SpecGen == GenInit /\ [][GenNext]_vars

DupNext == DupStart \/ DupGetOrCreateGroup \/ DupItem \/ DupCreateSubitem \/ DupSummary

SpecDup == DupInit /\ [][DupNext]_vars

\* The duplicator on a large master board.
SpecDupLarge == DupLargeInit /\ [][DupNext]_vars

MgrNext ==
    \/ MgrGetBoard \/ MgrSetupColumn \/ MgrReadCsv \/ MgrRow \/ MgrCreateItem
    \/ MgrCreateSubitem \/ MgrCreated \/ MgrSummary

SpecMgr == MgrInit /\ [][MgrNext]_vars

\* The generator, then the subitem manager on the generator's file.
HandOffNext ==
    \/ GenStart \/ GenRow \/ GenReturn \/ GenWriteCsv
    \/ MgrStartOnBoardCsv \/ MgrNext

SpecHandOff == HandOffInit /\ [][HandOffNext]_vars

\* The two get_or_create functions called in any order on one board.
ClientNext == ClientGetOrCreateGroup \/ ClientGetOrCreateColumn

SpecClient == ClientInit /\ [][ClientNext]_vars


(***************************************************************************)
(* Properties of the date helpers                                          *)
(***************************************************************************)
\* A YYYY-MM-DD text read back as an ordinal; 0 if the text has another shape.
IsoOrd(s) ==
    IF /\ Len(s) = 10 /\ s[5] = "-" /\ s[8] = "-"
       /\ \A i \in {1, 2, 3, 4, 6, 7, 9, 10} : IsDigitChar(s[i])
    THEN Ymd2Ord(int(SubSeq(s, 1, 4)), int(SubSeq(s, 6, 7)), int(SubSeq(s, 9, 10)))
    ELSE 0

Text_2025_12_01 == <<"2", "0", "2", "5", "-", "1", "2", "-", "0", "1">>

Text_2025_09_08 == <<"2", "0", "2", "5", "-", "0", "9", "-", "0", "8">>

Text_2026_06_01 == <<"2", "0", "2", "6", "-", "0", "6", "-", "0", "1">>

Text_2025_08_25 == <<"2", "0", "2", "5", "-", "0", "8", "-", "2", "5">>

C2_TrimmedDigitsAreSerial ==
    (prog = "date" /\ pc # "start" /\ Truthy(raw) /\ isdigit(strip(raw))) =>
        \A c \in {"gen", "dup"} :
            /\ parsed[c].tag = "datetime"
            /\ parsed[c].ord = Ymd2Ord(1899, 12, 30) + int(strip(raw))

\* C3: parse_launch_date is total: whatever the text, it returns a date or
\* None and raises nothing.
C3_ParseNeverRaises ==
    prog = "date" => /\ pc # "raised"
                     /\ \A c \in Copies : parsed[c].tag \in {"None", "datetime"}

SlashText(a, b, y) == Str(a) \o <<"/">> \o Str(b) \o <<"/">> \o Str(y)

\* The result of the first of the formats fmts, in order, that parses s.
FirstThatParses(s, fmts) ==
    IF \A k \in 1..Len(fmts) : strptime(s, fmts[k]) = ValueError THEN None
    ELSE strptime(s, fmts[CHOOSE k \in 1..Len(fmts) :
                            /\ strptime(s, fmts[k]) # ValueError
                            /\ \A j \in 1..(k - 1) : strptime(s, fmts[j]) = ValueError])

\* C4: a text that is not digits only is tried as YYYY-MM-DD, MM/DD/YYYY,
\* DD/MM/YYYY (then YYYY-MM-DD HH:MM:SS in the copies that accept it) and the
\* first format that parses gives the result; a/b/yyyy with a and b both at
\* most 12 is month a, day b, and is day a, month b only if a > 12 and b <= 12.
C4_FormatsTriedInFixedOrder ==
    (prog = "date" /\ pc # "start" /\ Truthy(raw) /\ strip(raw) # <<>> /\ ~isdigit(raw)) =>
        /\ \A c \in {"gen", "mgr"} :
              parsed[c] = FirstThatParses(strip(raw), <<FmtIso, FmtUs, FmtEu, FmtIsoTime>>)
        /\ \A c \in {"dup", "add", "pd"} :
              parsed[c] = FirstThatParses(strip(raw), <<FmtIso, FmtUs, FmtEu>>)
        /\ \A a \in SlashNums, b \in SlashNums, y \in {2024, 2025}, c \in Copies :
              raw = SlashText(a, b, y) =>
                 /\ (a \in 1..12 /\ b \in 1..12) =>
                        parsed[c] = DateTime(Ymd2Ord(y, a, b), 0)
                 /\ (parsed[c].tag = "datetime" /\ (a \notin 1..12 \/ parsed[c] # DateTime(Ymd2Ord(y, a, b), 0))) =>
                        (a > 12 /\ b <= 12 /\ parsed[c] = DateTime(Ymd2Ord(y, b, a), 0))

C4_Witness ==
    /\ prog = "date" /\ pc = "parsed"
    /\ raw = SlashText(5, 12, 2025)
    /\ parsed["gen"] = DateTime(Ymd2Ord(2025, 5, 12), 0)
    /\ parsed["dup"] = DateTime(Ymd2Ord(2025, 5, 12), 0)

\* C5: a launch date that is None, empty or whitespace only parses to None,
\* without error, in every copy of parse_launch_date.
C5_BlankParsesToNone ==
    (prog = "date" /\ pc # "start" /\ (~Truthy(raw) \/ \A i \in 1..Len(raw) : IsSpace(raw[i]))) =>
        /\ pc # "raised"
        /\ \A c \in Copies : parsed[c] = None

C5_Witness ==
    /\ prog = "date" /\ pc = "parsed" /\ raw = NoneStr
    /\ \A c \in Copies : parsed[c] = None

(***************************************************************************)
(* Properties of the scripts                                               *)
(***************************************************************************)
\* The task names of the configured templates, in their order.
TemplateNames == [k \in 1..Len(sub_items) |-> sub_items[k].task_name]

\* The names of the subitems under an item, in the order of their creation.
SubitemNames(item) == [k \in 1..Len(item.subitems) |-> item.subitems[k].name]

\* No submission of a subitem failed for the record.
NoSubitemFailed(rec) ==
    \A c \in 1..Len(calls) :
        ~(calls[c].op = "create_subitem" /\ calls[c].rec = rec /\ ~calls[c].ok)

\* Every capital letter with its small letter.
SmallOf == [c \in {UpperChars[m] : m \in 1..26} |->
              LowerChars[CHOOSE m \in 1..26 : UpperChars[m] = c]]

\* Two characters that are the same letter in either case.
SameLetter(x, y) ==
    (IF x \in DOMAIN SmallOf THEN SmallOf[x] ELSE x)
        = (IF y \in DOMAIN SmallOf THEN SmallOf[y] ELSE y)

\* The text holds the phrase, whatever the case of its letters.
HoldsPhrase(text, phrase) ==
    \E i \in 0..(Len(text) - Len(phrase)) :
        \A j \in 1..Len(phrase) : SameLetter(text[i + j], phrase[j])

\* The rules of the group classification, in their order.
GroupRules ==
    <<[phrase |-> <<"n", "e", "w", " ", "c", "o", "l", "o", "r", "s">>, group |-> "SS26 New Colors"],
      [phrase |-> <<"n", "e", "w", " ", "s", "t", "y", "l", "e", "s">>, group |-> "SS26 New Styles"],
      [phrase |-> <<"e", "n", "d", " ", "o", "f", " ", "l", "i", "f", "e">>, group |-> "End of Life Products"]>>

\* The group of the earliest rule whose phrase the title holds, or the default.
EarliestRuleGroup(title) ==
    IF \A k \in 1..Len(GroupRules) : ~HoldsPhrase(title, GroupRules[k].phrase)
    THEN "SS26 New Colors"
    ELSE GroupRules[CHOOSE k \in 1..Len(GroupRules) :
            /\ HoldsPhrase(title, GroupRules[k].phrase)
            /\ \A m \in 1..(k - 1) : ~HoldsPhrase(title, GroupRules[m].phrase)].group

\* C6: the duplicator puts every item in the destination group named by the
\* earliest rule, in the order "new colors", "new styles", "end of life",
\* whose phrase its source group title holds in any case, or in "SS26 New
\* Colors" when no rule applies; the group is the one obtained for that name,
\* and all three groups are obtained before any item is created.
C6_GroupByEarliestRule ==
    prog = "dup" =>
        /\ \A n \in 1..Len(dest) :
              LET name == EarliestRuleGroup(records[dest[n].rec].group)
              IN /\ name \in DOMAIN group_mapping
                 /\ dest[n].group = group_mapping[name]
                 /\ groups[dest[n].group] = name
        /\ \A a \in 1..Len(calls), b \in 1..Len(calls) :
              (calls[a].op = "create_group" /\ calls[b].op = "create_item") => a < b
        /\ (\E c \in 1..Len(calls) : calls[c].op = "create_item") =>
              DOMAIN group_mapping = {target_groups[k] : k \in 1..Len(target_groups)}

C6_Witness ==
    /\ prog = "dup" /\ pc = "done" /\ Len(dest) = 2
    /\ records[dest[1].rec].group = <<"N", "e", "w", " ", "S", "t", "y", "l", "e", "s", " ", "a", "n", "d", " ", "n", "e", "w", " ", "c", "o", "l", "o", "r", "s">>
    /\ groups[dest[1].group] = "SS26 New Colors"
    /\ records[dest[2].rec].group = <<"M", "i", "s", "c">>
    /\ groups[dest[2].group] = "SS26 New Colors"
    /\ \E c \in 1..Len(calls) : calls[c].op = "create_group"

\* C7: in the duplicator, every master item that was created and none of
\* whose subitem submissions failed has exactly one subitem per template, in
\* the order of the templates, with or without a launch date.
C7_DupCreatesEveryTemplate ==
    prog = "dup" =>
        \A n \in 1..Len(dest) :
            (dest[n].rec < row_i /\ NoSubitemFailed(dest[n].rec)) =>
                SubitemNames(dest[n]) = TemplateNames

\* C8: create_main_item_with_subitems submits exactly one subitem per
\* template, in the order of the templates, for every record whose main item
\* it created, whether the record's launch date is present, parsable or not.
C8_MgrCreatesEveryTemplate ==
    prog = "mgr" =>
        \A n \in 1..Len(dest) :
            (dest[n].rec < row_i /\ NoSubitemFailed(dest[n].rec)) =>
                SubitemNames(dest[n]) = TemplateNames

\* C9: a record with a name and no parsable launch date is still created as
\* a main item: generate_department_csv returns its main-item row, and
\* add_subitems_to_monday.main creates its main item, without dated subitems.
C9_UndatedRecordStillCreated ==
    /\ (prog = "gen" /\ pc = "done") =>
          \A n \in 1..Len(records) :
              (Truthy(records[n].Item) /\ parse_launch_date(records[n].Launch_Date) = None) =>
                  \E r \in 1..Len(csv_data) :
                      /\ csv_data[r].Item = records[n].Item
                      /\ csv_data[r].Type = <<"M", "a", "i", "n", " ", "I", "t", "e", "m">>
    /\ (prog = "add" /\ pc = "done" /\ failures = 0) =>
          \A n \in 1..Len(records) :
              (/\ Truthy(strip(GetOrEmpty(records[n].Name)))
               /\ ~startswith(records[n].Name, <<"S", "u", "b", "i", "t", "e", "m", "s">>)
               /\ Add_parse_launch_date(records[n].Launch_Date) = None) =>
                  \E d \in 1..Len(dest) : dest[d].rec = n /\ dest[d].subitems = <<>>

\* The launch date the script resolved for a record.
ResolvedLaunch(rec) ==
    IF prog = "dup" THEN FindLaunchDate(records[rec].column_values, 1, None)
    ELSE Mgr_parse_launch_date(records[rec].Launch_Date)

\* The fields of a subitem other than its status and its description.
DateFields(column_values) == DOMAIN column_values \ {K_status, K_text}

\* C10: no date is made up: in the duplicator and in the subitem manager
\* every subitem is submitted with a date field only if the launch date of
\* its record was resolved, and the date is then the launch date less
\* 7 * lead_time_weeks days; for a record without a launch date the subitem's
\* column values have no date field.
C10_NoFabricatedDate ==
    [][(prog \in {"dup", "mgr"} /\ subitems_created' = subitems_created + 1) =>
          LET item == dest'[Len(dest')]
              k == Len(item.subitems)
              column_values == item.subitems[k].column_values
              launch == ResolvedLaunch(item.rec)
          IN /\ item.rec = row_i /\ k = sub_j
             /\ launch = None => DateFields(column_values) = {}
             /\ \A f \in DateFields(column_values) :
                   LET sent == IsoOrd(column_values[f])
                   IN /\ launch.tag = "datetime"
                      /\ f = (IF prog = "dup" THEN K_date ELSE due_date_column_id)
                      /\ sent = launch.ord - 7 * sub_items[k].lead_time_weeks
                      /\ sent >= MinOrd]_vars

C10_Witness ==
    /\ prog = "dup" /\ pc = "done" /\ Len(dest) = 2
    /\ ResolvedLaunch(dest[1].rec) = DateTime(Ymd2Ord(2025, 12, 1), 0)
    /\ Len(dest[1].subitems) = 2
    /\ dest[1].subitems[1].column_values[K_date] = <<"2", "0", "2", "5", "-", "0", "2", "-", "2", "4">>
    /\ dest[1].subitems[2].column_values[K_date] = <<"2", "0", "2", "5", "-", "0", "6", "-", "0", "2">>
    /\ ResolvedLaunch(dest[2].rec) = None
    /\ Len(dest[2].subitems) = 2
    /\ DateFields(dest[2].subitems[1].column_values) = {}

\* The row of the main item a sub-item row of the generated CSV belongs to.
MainRowOf(r) ==
    CHOOSE m \in 1..r :
        /\ csv_data[m].Type = <<"M", "a", "i", "n", " ", "I", "t", "e", "m">>
        /\ \A x \in (m + 1)..r : csv_data[x].Type # <<"M", "a", "i", "n", " ", "I", "t", "e", "m">>

\* C11: with a lead time of zero weeks or more, every due date produced is
\* on or before the launch date of its record: the date helper's result, the
\* Due Date of every sub-item row of the generated CSV, and the date of every
\* subitem the submitters create.
C11_DueDateNotAfterLaunch ==
    /\ (prog = "date" /\ pc = "done" /\ parsed["gen"].tag = "datetime" /\ due # RaisedStr) =>
          (weeks >= 0 => IsoOrd(due) <= parsed["gen"].ord)
    /\ prog = "gen" =>
          \A r \in 1..Len(csv_data) :
              (csv_data[r].Type = <<"S", "u", "b", " ", "I", "t", "e", "m">> /\ csv_data[r].Due_Date # <<>>) =>
                  /\ IsoOrd(csv_data[r].Due_Date) >= MinOrd
                  /\ IsoOrd(csv_data[r].Due_Date) <= IsoOrd(csv_data[MainRowOf(r)].Launch_Date)
    /\ (prog \in {"add", "dup", "mgr"} /\ pc = "subitems") =>
          LET item == dest[Len(dest)]
          IN \A k \in 1..Len(item.subitems) :
                \A f \in DateFields(item.subitems[k].column_values) :
                    /\ IsoOrd(item.subitems[k].column_values[f]) >= MinOrd
                    /\ IsoOrd(item.subitems[k].column_values[f]) <= launch_date.ord

C11_Witness ==
    /\ prog = "gen" /\ pc = "done" /\ Len(csv_data) = 3
    /\ csv_data[1].Launch_Date = Text_2025_12_01
    /\ csv_data[2].Due_Date = <<"2", "0", "2", "5", "-", "0", "2", "-", "2", "4">>
    /\ csv_data[3].Due_Date = <<"2", "0", "2", "5", "-", "0", "6", "-", "0", "2">>

\* No create_item call failed for the record.
NoItemFailed(rec) ==
    \A c \in 1..Len(calls) :
        ~(calls[c].op = "create_item" /\ calls[c].rec = rec /\ ~calls[c].ok)

\* C12: when the master board or the destination board has no column whose
\* title contains "platform", the duplicator only leaves the platform field
\* out: no item ends in an error because of the missing column, and every
\* master item whose create_item did not fail is on the destination board
\* with its other non-empty columns.
C12_MissingPlatformOnlyOmitsField ==
    (/\ prog = "dup" /\ pc \in {"loop", "subitems", "done"}
     /\ \/ platform_col(env.master_columns) = NoColumn
        \/ platform_col(env.proddev_columns) = NoColumn) =>
        /\ \A e \in 1..Len(errors) : errors[e].what # "TypeError"
        /\ \A n \in 1..(row_i - 1) :
              NoItemFailed(n) =>
                 \E d \in 1..Len(dest) :
                    /\ dest[d].rec = n
                    /\ dest[d].name = records[n].name
                    /\ \A c \in 1..Len(records[n].column_values) :
                          LET col == records[n].column_values[c]
                          IN (/\ Truthy(col.text) /\ Truthy(col.id)
                              /\ col.id # platform_col(env.master_columns).id) =>
                                 /\ col.id \in DOMAIN dest[d].column_values
                                 /\ dest[d].column_values[col.id] = col.text

\* The columns of the board with the title of the master board's column
\* `source_id`: the columns of the destination board that column is copied to.
SameTitleColumns(source_id, board_columns) ==
    {board_columns[p] : p \in {p \in 1..Len(board_columns) :
        \E m \in 1..Len(env.master_columns) :
            /\ env.master_columns[m].id = source_id
            /\ env.master_columns[m].title = board_columns[p].title}}

\* C13: every non-empty text of a column of a mirrored item is submitted
\* under the id the destination board has for that column, and not under the
\* id of the master board's column.
C13_CopiedUnderDestinationId ==
    prog = "dup" =>
        \A d \in 1..Len(dest) :
            \A c \in 1..Len(records[dest[d].rec].column_values) :
                LET col == records[dest[d].rec].column_values[c]
                IN (/\ Truthy(col.text) /\ Truthy(col.id)
                    /\ col.id # platform_col(env.master_columns).id) =>
                       \A target \in SameTitleColumns(col.id, env.proddev_columns) :
                           /\ target.id \in DOMAIN dest[d].column_values
                           /\ dest[d].column_values[target.id] = col.text
                           /\ col.id # target.id => col.id \notin DOMAIN dest[d].column_values

\* The columns of a board whose title holds "platform" in any case, first
\* one first.
PlatformLike(board_columns) ==
    SelectSeq(board_columns, LAMBDA col : HoldsPhrase(col.title, <<"p", "l", "a", "t", "f", "o", "r", "m">>))

\* C14: when both boards have a platform-like column and the platform text
\* of a master item is not empty, the item created for it carries that text
\* under the id of the destination board's platform column, and the id of the
\* master board's platform column is not a key of the submitted values.
C14_PlatformUnderDestinationId ==
    (/\ prog = "dup"
     /\ PlatformLike(env.master_columns) # <<>>
     /\ PlatformLike(env.proddev_columns) # <<>>) =>
        LET source_id == PlatformLike(env.master_columns)[1].id
            target_id == PlatformLike(env.proddev_columns)[1].id
        IN \A d \in 1..Len(dest) :
              \A c \in 1..Len(records[dest[d].rec].column_values) :
                 LET col == records[dest[d].rec].column_values[c]
                 IN (col.id = source_id /\ Truthy(col.text)) =>
                       /\ target_id \in DOMAIN dest[d].column_values
                       /\ dest[d].column_values[target_id] = col.text
                       /\ source_id # target_id =>
                             source_id \notin DOMAIN dest[d].column_values

C14_Witness ==
    /\ prog = "dup" /\ pc = "done" /\ Len(dest) = 1
    /\ records[dest[1].rec].column_values[2] = ColumnValue(<<"p", "l", "a", "t", "f", "o", "r", "m", "_", "1">>, <<"W", "e", "b">>)
    /\ <<"t", "e", "x", "t", "9">> \in DOMAIN dest[1].column_values
    /\ dest[1].column_values[<<"t", "e", "x", "t", "9">>] = <<"W", "e", "b">>
    /\ <<"p", "l", "a", "t", "f", "o", "r", "m", "_", "1">> \notin DOMAIN dest[1].column_values

\* The columns of a department's board CSV.
FixedColumns ==
    <<"Item", "Style_Name", "Color_Name", "Priority", "Status", "Platform",
      "Launch_Date", "Due_Date", "Type", "Description">>

\* C15: for every non-empty list of rows of generate_department_csv,
\* write_csv succeeds, the header of the file is the ten fixed columns in
\* their order, and every row is written.
C15_WriteCsvFixedHeader ==
    (prog = "gen" /\ pc \in {"written", "write_raised"}) =>
        /\ pc = "written"
        /\ csv_file.header = FixedColumns
        /\ Len(csv_file.rows) = Len(csv_data)

\* The calls that create an item or a subitem.
IsRecordCall(c) == calls[c].op \in {"create_item", "create_subitem"}

\* C16: in the duplicator, the subitem manager and add_subitems_to_monday the
\* calls to the board service go record by record: no call for a record
\* comes after a call for a later record, a record's create_item comes once
\* and before its create_subitem calls, and every create_subitem call
\* follows a create_item of its record that succeeded.
C16_CallsOrderedByRecord ==
    prog \in {"dup", "mgr", "add"} =>
        /\ \A a \in 1..Len(calls), b \in 1..Len(calls) :
              (a < b /\ IsRecordCall(a) /\ IsRecordCall(b)) =>
                 /\ calls[a].rec <= calls[b].rec
                 /\ calls[a].rec = calls[b].rec =>
                       /\ calls[b].op = "create_subitem"
                       /\ calls[a].op = "create_subitem" => calls[a].tmpl < calls[b].tmpl
        /\ \A b \in 1..Len(calls) :
              calls[b].op = "create_subitem" =>
                 \E a \in 1..(b - 1) :
                    /\ calls[a].op = "create_item" /\ calls[a].ok
                    /\ calls[a].rec = calls[b].rec

C16_Witness ==
    /\ prog = "mgr" /\ pc = "done"
    /\ \E c \in 1..(Len(calls) - 4) :
          /\ calls[c] = Call("create_item", 1, 0, TRUE)
          /\ calls[c + 1] = Call("create_subitem", 1, 1, TRUE)
          /\ calls[c + 2] = Call("create_subitem", 1, 2, TRUE)
          /\ calls[c + 3] = Call("create_item", 2, 0, TRUE)
          /\ calls[c + 4] = Call("create_subitem", 2, 1, FALSE)

\* The records the loop of the script takes up: every item of the master
\* board; the named main-item rows of the board CSV; the named rows of the
\* product-development CSV that have a launch date.
Eligible(n) ==
    CASE prog = "dup" -> TRUE
      [] prog = "mgr" -> /\ Truthy(records[n].Item)
                         /\ ~startswith(records[n].Item, <<" ", " ">>)
                         /\ records[n].Type = <<"M", "a", "i", "n", " ", "I", "t", "e", "m">>
      [] prog = "add" -> /\ Truthy(strip(GetOrEmpty(records[n].Name)))
                         /\ ~startswith(records[n].Name, <<"S", "u", "b", "i", "t", "e", "m", "s">>)
                         /\ Add_parse_launch_date(records[n].Launch_Date) # None

\* The create_item calls made for a record.
ItemCalls(n) == {c \in 1..Len(calls) : calls[c].op = "create_item" /\ calls[c].rec = n}

\* The record ended in an error before its create_item call.
FailedBeforeItem(n) ==
    \E e \in 1..Len(errors) : errors[e].rec = n /\ errors[e].what = "TypeError"

\* C17: a failure while one record is processed stays with that record: in
\* the duplicator, the subitem manager and add_subitems_to_monday the loop
\* over the records, once begun, is never left by an exception (the
\* duplicator's groups are set up before its loop), and when it has ended every
\* eligible record has been attempted exactly once, in the order of the
\* input, whatever happened to the records before it.
C17_FailureIsolatedToRecord ==
    prog \in {"dup", "mgr", "add"} =>
        /\ pc = "raised" =>
              (prog = "dup" /\ errors = <<>> /\ \A c \in 1..Len(calls) : ~IsRecordCall(c))
        /\ pc = "done" =>
              \A n \in 1..Len(records) :
                  /\ Cardinality(ItemCalls(n)) <= 1
                  /\ Eligible(n) => (ItemCalls(n) # {} \/ FailedBeforeItem(n))
                  /\ \A m \in 1..(n - 1) : \A a \in ItemCalls(m), b \in ItemCalls(n) : a < b

\* C18: nothing is rolled back: in the duplicator and the subitem manager
\* the only calls that change a board create something; when the j-th
\* create_subitem of a record fails, the record's item stays on the board
\* with the first j-1 templates as its subitems and no other call is made
\* for the record; the subitems of any item are the first templates, in the
\* order of the templates.
C18_NoRollback ==
    prog \in {"dup", "mgr"} =>
        /\ \A c \in 1..Len(calls) :
              calls[c].op \in {"create_board", "create_column", "create_group",
                               "create_item", "create_subitem"}
        /\ \A d \in 1..Len(dest) :
              /\ Len(dest[d].subitems) <= Len(sub_items)
              /\ SubitemNames(dest[d]) = SubSeq(TemplateNames, 1, Len(dest[d].subitems))
        /\ \A c \in 1..Len(calls) :
              (calls[c].op = "create_subitem" /\ ~calls[c].ok) =>
                 /\ \A x \in (c + 1)..Len(calls) : calls[x].rec # calls[c].rec
                 /\ \E d \in 1..Len(dest) :
                       /\ dest[d].rec = calls[c].rec
                       /\ Len(dest[d].subitems) = calls[c].tmpl - 1

C18_Witness ==
    /\ prog = "dup" /\ pc = "done" /\ Len(dest) = 2
    /\ \E c \in 1..Len(calls) : calls[c] = Call("create_subitem", 1, 2, FALSE)
    /\ SubitemNames(dest[1]) = <<<<"F", "a", "b", "r", "i", "c", " ", "A", "p", "p", "r", "o", "v", "e", "d">>>>
    /\ Len(dest[2].subitems) = 2

\* C19: when monday_config.json is missing, or no board of the account is
\* named exactly "SS26 Master", or none exactly "SS26 Prod Dev", the
\* duplicator stops before any mutating call: no group, no item and no
\* subitem is created.
C19_NotFoundStopsBeforeMutation ==
    (/\ prog = "dup"
     /\ \/ ~env.config_found
        \/ \A n \in 1..Len(env.boards) : env.boards[n] # <<"S", "S", "2", "6", " ", "M", "a", "s", "t", "e", "r">>
        \/ \A n \in 1..Len(env.boards) : env.boards[n] # <<"S", "S", "2", "6", " ", "P", "r", "o", "d", " ", "D", "e", "v">>)
    => /\ pc \in {"start", "returned"}
       /\ calls = <<>> /\ groups = <<>> /\ dest = <<>>
       /\ items_created = 0 /\ subitems_created = 0

C19_Witness ==
    /\ prog = "dup" /\ pc = "returned" /\ Len(env.items) >= 1
    /\ env.config_found
    /\ \E n \in 1..Len(env.boards) : env.boards[n] = <<"S", "S", "2", "6", " ", "P", "r", "o", "d", " ", "D", "e", "v", " ">>
    /\ calls = <<>> /\ groups = <<>> /\ dest = <<>>

\* C20: in a run of the duplicator in which no call of the board service
\* fails and no record fails, every item of the master board, however many
\* there are, has one item of its name on the destination board: as many
\* items are created as the master board holds, with the names of the
\* master's items in their order.
C20_EveryMasterItemDuplicated ==
    (/\ prog = "dup" /\ pc = "done" /\ errors = <<>>
     /\ \A c \in 1..Len(calls) : calls[c].ok)
    => /\ Len(dest) = Len(env.items)
       /\ \A n \in 1..Len(dest) : dest[n].name = env.items[n].name

\* C21: the board CSV keeps main items and subitems apart: every sub-item
\* row the generator emits has an Item starting with two spaces and the
\* Type "Sub Item", every other row has the Type "Main Item", and the
\* subitem manager, run to its end on the generator's file, submits a
\* create_item for every row emitted as a main item and for no row emitted
\* as a sub item.
C21_MainAndSubRowsKeptApart ==
    /\ \A r \in 1..Len(csv_data) :
          \/ /\ csv_data[r].Type = <<"S", "u", "b", " ", "I", "t", "e", "m">>
             /\ startswith(csv_data[r].Item, <<" ", " ">>)
          \/ csv_data[r].Type = <<"M", "a", "i", "n", " ", "I", "t", "e", "m">>
    /\ (prog = "mgr" /\ pc = "done") =>
          \A r \in 1..Len(csv_data) :
              (csv_data[r].Type = <<"M", "a", "i", "n", " ", "I", "t", "e", "m">>)
                  <=> (\E c \in 1..Len(calls) :
                          /\ calls[c].op = "create_item"
                          /\ calls[c].rec = r
                          /\ records[r].Item = csv_data[r].Item)

\* The places, in input order, of the first n master rows that have an item
\* name and a launch date that parses.
RECURSIVE EligibleRows(_)
EligibleRows(n) ==
    IF n = 0 THEN <<>>
    ELSE IF /\ Truthy(records[n].Item)
            /\ parse_launch_date(records[n].Launch_Date).tag = "datetime"
         THEN Append(EligibleRows(n - 1), n)
         ELSE EligibleRows(n - 1)

\* C22: what generate_department_csv returns is one block per master row
\* that has an item name and a parsable launch date, in input order; a block
\* is the main-item row followed by one sub-item row per template of the
\* department, in the order of the templates; the length is the number of
\* such rows times one plus the number of templates.
C22_OutputIsBlocksInOrder ==
    (prog = "gen" /\ pc = "done") =>
        LET rows == EligibleRows(Len(records))
            N == Len(sub_items)
        IN /\ Len(csv_data) = Len(rows) * (1 + N)
           /\ \A b \in 1..Len(rows) :
                 LET at == (b - 1) * (1 + N) + 1
                 IN /\ csv_data[at].Type = <<"M", "a", "i", "n", " ", "I", "t", "e", "m">>
                    /\ csv_data[at].Item = records[rows[b]].Item
                    /\ csv_data[at].Launch_Date
                          = strftime(parse_launch_date(records[rows[b]].Launch_Date))
                    /\ \A k \in 1..N :
                          /\ csv_data[at + k].Type = <<"S", "u", "b", " ", "I", "t", "e", "m">>
                          /\ csv_data[at + k].Item = <<" ", " ">> \o sub_items[k].task_name

C22_Witness ==
    /\ prog = "gen" /\ pc = "done"
    /\ Len(records) = 2 /\ EligibleRows(2) = <<1, 2>> /\ records[1] # records[2]
    /\ Len(sub_items) = 2 /\ Len(csv_data) = 6
    /\ csv_data[5].Item = <<" ", " ", "F", "a", "b", "r", "i", "c", " ", "A", "p", "p", "r", "o", "v", "e", "d">>

\* C23: generate_department_csv is a pure function: a call changes neither
\* the master rows nor the configuration, and a call with the arguments of
\* an earlier call returns what that call returned, None or the same list
\* of rows.
C23_ExpansionIsPure ==
    [][prog = "gen" =>
          /\ records' = records /\ sub_items' = sub_items /\ env' = env
          /\ (pc' \in {"done", "returned_none"} /\ returned' # <<>>) =>
                \A n \in 1..Len(returned') :
                    /\ returned'[n].none = (pc' = "returned_none")
                    /\ returned'[n].rows = csv_data']_vars

C23_Witness ==
    /\ prog = "gen" /\ pc = "done" /\ Len(returned) = 1
    /\ Len(csv_data) = 6 /\ returned[1].rows = csv_data
    /\ csv_data[1].Item # csv_data[4].Item

\* The calls of an operation that succeeded.
Succeeded(op) == {c \in 1..Len(calls) : calls[c].op = op /\ calls[c].ok}

\* C24: the counters of the duplicator are exact: items_created is the
\* number of create_item calls that succeeded and subitems_created the
\* number of create_subitem calls that succeeded, and at the end every
\* master item that is not counted in items_created has an error logged.
C24_CountersExact ==
    prog = "dup" =>
        /\ items_created = Cardinality(Succeeded("create_item"))
        /\ subitems_created = Cardinality(Succeeded("create_subitem"))
        /\ pc = "done" =>
              \A n \in 1..Len(records) :
                  (\A c \in Succeeded("create_item") : calls[c].rec # n) =>
                      \E e \in 1..Len(errors) : errors[e].rec = n

C24_Witness ==
    /\ prog = "dup" /\ pc = "done" /\ Len(records) = 2
    /\ items_created = 1 /\ subitems_created = 1
    /\ \E c \in 1..Len(calls) : calls[c] = Call("create_item", 1, 0, FALSE)
    /\ \E c \in 1..Len(calls) : calls[c] = Call("create_subitem", 2, 1, TRUE)
    /\ Len(errors) >= 1

\* C25: the subitem manager reports an error for a row only if a
\* create_item or create_subitem call for that row failed: a row whose
\* calls all succeeded has no error report, and at the end the rows counted
\* in main_items_created are as many as the rows whose calls all succeeded.
C25_ErrorOnlyOnFailedCall ==
    prog = "mgr" =>
        /\ \A e \in 1..Len(errors) :
              \E c \in 1..Len(calls) : calls[c].rec = errors[e].rec /\ ~calls[c].ok
        /\ pc = "done" =>
              items_created =
                  Cardinality({n \in 1..Len(records) :
                      /\ \E c \in Succeeded("create_item") : calls[c].rec = n
                      /\ \A c \in 1..Len(calls) : calls[c].rec = n => calls[c].ok})

\* C26: the count the subitem manager reports is the number of main items
\* the run has put on the board, those with a failed subitem included.
C26_CountIsItemsOnBoard ==
    (prog = "mgr" /\ pc = "done") => items_created = Len(dest)

\* C27: when the CSV file of a department does not exist, the subitem
\* manager leaves the board service as it was: no board and no due-date
\* column is created for the department, and the department is skipped.
C27_MissingCsvMutatesNothing ==
    (prog = "mgr" /\ ~env.csv_found) =>
        /\ calls = <<>>
        /\ \A n \in 1..Len(columns) : columns[n].id # NewColumnId
        /\ pc \in {"start", "setup", "read_csv", "skipped", "failed"}

\* How many groups of the board have the title.
Titled(board_groups, title) ==
    Cardinality({n \in 1..Len(board_groups) : board_groups[n] = title})

DueDateColumns(board_columns) ==
    {n \in 1..Len(board_columns) : board_columns[n].title = DueDateTitle}

\* C28: get_or_create_group and get_or_create_due_date_column create no
\* duplicate.  In every call, if the board has a group (column) of the very
\* title, nothing is created and no create call is issued, and otherwise one
\* create call adds one entity; the id returned is that of an entity of the
\* title; and a later call with the same title returns the id the earlier
\* call returned.
C28_GetOrCreateNeverDuplicates ==
    [][prog = "client" =>
          /\ \A n \in 1..Len(target_groups) :
                LET t == target_groups[n]
                IN /\ Titled(groups, t) >= 1 => Titled(groups', t) = Titled(groups, t)
                   /\ Titled(groups', t) <= Titled(groups, t) + 1
          /\ DueDateColumns(columns) # {} => columns' = columns
          /\ Cardinality(DueDateColumns(columns')) <= Cardinality(DueDateColumns(columns)) + 1
          /\ Len(calls') - Len(calls)
                = (Len(groups') - Len(groups)) + (Len(columns') - Len(columns))
          /\ Len(calls') - Len(calls) \in {0, 1}
          /\ \A t \in DOMAIN group_mapping' :
                /\ groups'[group_mapping'[t]] = t
                /\ t \in DOMAIN group_mapping => group_mapping'[t] = group_mapping[t]
          /\ due_date_column_id # NoneStr => due_date_column_id' = due_date_column_id
          /\ due_date_column_id' # NoneStr =>
                \E n \in DueDateColumns(columns') : columns'[n].id = due_date_column_id'
      ]_vars

C28_Witness ==
    /\ prog = "client" /\ row_i = 4
    /\ groups = <<"Group Title", "SS26 New Colors">>
    /\ group_mapping = ("SS26 New Colors" :> 2)
    /\ calls = <<Call("create_group", 0, 1, TRUE)>>
    /\ due_date_column_id = NoneStr /\ failures = 0

\* The columns of an item, by place, whose id holds "launch" or "date" in
\* any case and whose text parses to a date.
LaunchColumns(cols) ==
    {n \in 1..Len(cols) :
        /\ \/ Contains(<<"l", "a", "u", "n", "c", "h">>, lower(GetOrEmpty(cols[n].id)))
           \/ Contains(<<"d", "a", "t", "e">>, lower(GetOrEmpty(cols[n].id)))
        /\ Dup_parse_launch_date(cols[n].text).tag = "datetime"}

\* The launch date of an item as the first such column gives it; None when
\* there is no such column.
FirstLaunchColumnDate(cols) ==
    IF LaunchColumns(cols) = {} THEN None
    ELSE Dup_parse_launch_date(
             cols[CHOOSE n \in LaunchColumns(cols) : \A m \in LaunchColumns(cols) : n <= m].text)

\* C29: in the duplicator, once the item of a record is created, the launch
\* date of the record is the date parsed from the first of its columns, in
\* the item's column order, whose id holds "launch" or "date" and whose text
\* parses; the other columns have no part in it; and with no such column
\* the record goes on without a launch date.
C29_LaunchFromFirstDateColumn ==
    [][(/\ prog = "dup" /\ pc = "loop"
        /\ Len(calls') = Len(calls) + 1
        /\ calls'[Len(calls')].op = "create_item" /\ calls'[Len(calls')].ok)
       => /\ pc' = "subitems"
          /\ launch_date' = FirstLaunchColumnDate(records[row_i].column_values)]_vars

\* C30: the launch date survives the board CSV: for every main-item row the
\* generator returns, the subitem manager's parse_launch_date applied to the
\* row's Launch Date gives the date the generator had parsed, and the due
\* dates the manager computes from it for the templates are the Due Date
\* values of the row's sub-item rows.
C30_LaunchDateRoundTrip ==
    (prog = "gen" /\ pc = "done") =>
        LET rows == EligibleRows(Len(records))
            N == Len(sub_items)
        IN \A b \in 1..Len(rows) :
              LET at == (b - 1) * (1 + N) + 1
                  d == parse_launch_date(records[rows[b]].Launch_Date)
                  back == Mgr_parse_launch_date(csv_data[at].Launch_Date)
              IN /\ back.tag = "datetime"
                 /\ back.ord = d.ord
                 /\ \A k \in 1..N :
                       calculate_due_date(back, sub_items[k].lead_time_weeks)
                           = csv_data[at + k].Due_Date

=============================================================================
